---- MODULE Spec2Model ----
(***************************************************************************)
(* Model of the alert engine and dismissal store of jarvis-advisor:        *)
(*   services/dismissal_service.py  DismissalService                       *)
(*   services/alerts_service.py     AlertsService                          *)
(*   data/schema.py                 Client and its derived properties      *)
(*   app.py                         render_chat / render_alerts / settings *)
(*                                                                         *)
(* Three specifications share the variables:                               *)
(*   SpecStore  two DismissalService instances over one backing file       *)
(*   SpecNudge  get_proactive_nudge and the alerts page's filter applied   *)
(*              to bounded alert lists                                     *)
(*   Spec       one app session: scans, the alerts page, its buttons       *)
(***************************************************************************)
EXTENDS Integers, Sequences, FiniteSets, TLC

VARIABLES
    clock,       \* the wall clock's date: date.today() / datetime.now()
    today,       \* AlertsService.today, read once in __init__
    clients,     \* the client list returned by get_all_clients()
    view,        \* st.session_state.current_view
    alerts,      \* the list last returned by generate_all_alerts
    nudge,       \* the dict last returned by get_proactive_nudge
    page,        \* what render_alerts last computed
    mem,         \* per DismissalService instance: the in-memory cache
    status,      \* per instance: "absent", "ready" or "crashed"
    file,        \* content of data/dismissals.json
    lastWriter,  \* instance whose _save last wrote the file, 0 if none
    disk,        \* "reliable": writes succeed; "unreliable": a write may fail
                 \* with IOError; "failed": some _save has hit an IOError
    lastOp,      \* the operation that ran last
    raised,      \* the exception the last operation propagated, or "none"
    score,       \* the dict last returned by the compliance service
    clientNudges, \* the list last returned by get_client_nudges, and for whom
    messages,    \* st.session_state.messages: the chat history of the session
    lastGreetingDate \* st.session_state.last_greeting_date, NoDate when unset

vars == <<clock, today, clients, view, alerts, nudge, page,
          mem, status, file, lastWriter, disk, lastOp, raised, score,
          clientNudges, messages, lastGreetingDate>>

pipelineVars == <<today, clients, view, alerts, nudge, page, score,
                  clientNudges, messages, lastGreetingDate>>

(***************************************************************************)
(* Bounds of the model                                                     *)
(***************************************************************************)
MaxDismissed == 1

MaxTicks == 1

MaxAlerts == 2
\* alerts per tier in the lists whose nudge is formatted
MaxRed == 6
MaxYellow == 10
MaxMonth == 2
MaxClients == 6

\* the two DismissalService instances (two processes on one data directory)
Inst == {1, 2}

(***************************************************************************)
(* Generic helpers                                                         *)
(***************************************************************************)
Range(s) == {s[i] : i \in DOMAIN s}

Restrict(f, S) == [x \in S |-> f[x]]

\* list(a_set): some enumeration of the set, in an order the code does not fix
ListsOf(S) == {s \in [1..Cardinality(S) -> S] : Range(s) = S}

(***************************************************************************)
(* Dates: datetime.date as a record; differences go through toordinal      *)
(***************************************************************************)
Date(y, m, d) == [y |-> y, m |-> m, d |-> d]

NoDate == Date(0, 1, 1)

IsLeap(y) == (y % 4 = 0) /\ ((y % 100 # 0) \/ (y % 400 = 0))

DaysInMonth(y, m) ==
    IF m = 2 THEN (IF IsLeap(y) THEN 29 ELSE 28)
    ELSE IF m \in {4, 6, 9, 11} THEN 30 ELSE 31

\* days of a common year before each month
DaysBeforeMonthTable == <<0, 31, 59, 90, 120, 151, 181, 212, 243, 273, 304, 334>>

DaysBeforeMonth(y, m) ==
    DaysBeforeMonthTable[m] + (IF m > 2 /\ IsLeap(y) THEN 1 ELSE 0)

DaysBeforeYear(y) ==
    (y - 1) * 365 + ((y - 1) \div 4) - ((y - 1) \div 100) + ((y - 1) \div 400)

\* date.toordinal()
Ord(dt) == DaysBeforeYear(dt.y) + DaysBeforeMonth(dt.y, dt.m) + dt.d

\* (a - b).days
DaysBetween(a, b) == Ord(a) - Ord(b)

\* a + timedelta(days=1)
NextDay(dt) ==
    IF dt.d < DaysInMonth(dt.y, dt.m) THEN Date(dt.y, dt.m, dt.d + 1)
    ELSE IF dt.m < 12 THEN Date(dt.y, dt.m + 1, 1)
    ELSE Date(dt.y + 1, 1, 1)

(***************************************************************************)
(* Identifiers used as inputs                                              *)
(***************************************************************************)
ClientIds == {"C001", "C002"}

\* ids the store operations are called with
StoreClientIds == {"C002"}

StoreAlertIds == {"bday-C001-2026", "review-C002"}

\* client_name argument of mark_client_inactive: None/"" or a display name
NoName == ""

ClientNames == {NoName, "Mr John Smith"}

(***************************************************************************)
(* The dismissal store: services/dismissal_service.py                      *)
(***************************************************************************)
EmptyNames == [c \in {} |-> NoName]

\* the three caches as __init__ creates them
EmptyStore == [dismissed |-> {}, inactive |-> {}, names |-> EmptyNames]

\* the methods class DismissalService defines
DismissalServiceMethods ==
    {"__init__", "_load", "_save", "dismiss_alert", "undismiss_alert",
     "is_alert_dismissed", "get_dismissed_alerts", "clear_dismissed_alerts",
     "mark_client_inactive", "reactivate_client", "is_client_inactive",
     "get_inactive_clients", "get_inactive_clients_with_names",
     "get_stats", "reset_all"}

\* dismissals.json.  kind: "missing" (no file), "unreadable" (open/read
\* fails with IOError), "garbage" (not JSON), "nonobject" (valid JSON that is
\* not an object), "object".  bad names a key of the object whose value is
\* not a list (a number), or "none".
FileRec(kind, bad, da, ic, icn, lu) ==
    [kind |-> kind, bad |-> bad, dismissed_alerts |-> da,
     inactive_clients |-> ic, inactive_client_names |-> icn,
     last_updated |-> lu]

NoFile == FileRec("missing", "none", << >>, << >>, EmptyNames, NoDate)

\* a _save that leaves the name map out of the dump
JsonDumpsWithoutNames(st, now) ==
    {FileRec("object", "none", da, ic, EmptyNames, now) :
        da \in ListsOf(st.dismissed), ic \in ListsOf(st.inactive)}

\* what _save's json.dump writes for a cache, under any list order
JsonDumps(st, now) ==
    {FileRec("object", "none", da, ic, st.names, now) :
        da \in ListsOf(st.dismissed), ic \in ListsOf(st.inactive)}

\* _load: the caches it leaves and the exception it propagates
LoadResult(f) ==
    IF f.kind = "missing" THEN [state |-> EmptyStore, raised |-> "none"]
    ELSE IF f.kind \in {"garbage", "unreadable"}
        THEN [state |-> EmptyStore, raised |-> "none"]
    ELSE IF f.kind = "nonobject"
        THEN [state |-> EmptyStore, raised |-> "AttributeError"]
    ELSE IF f.bad = "dismissed_alerts"
        THEN [state |-> EmptyStore, raised |-> "TypeError"]
    ELSE IF f.bad = "inactive_clients"
        THEN [state |-> [EmptyStore EXCEPT
                            !.dismissed = Range(f.dismissed_alerts)],
              raised |-> "TypeError"]
    ELSE [state |-> [dismissed |-> Range(f.dismissed_alerts),
                     inactive |-> Range(f.inactive_clients),
                     names |-> f.inactive_client_names],
          raised |-> "none"]

Op(name, i) == [op |-> name, inst |-> i]

\* a _save that merges the cache into what the file already holds
SaveMerging(i, st) ==
    LET old == LoadResult(file).state
        merged == [dismissed |-> st.dismissed \cup old.dismissed,
                   inactive |-> st.inactive \cup old.inactive,
                   names |-> [c \in DOMAIN st.names \cup DOMAIN old.names |->
                                IF c \in DOMAIN st.names THEN st.names[c]
                                ELSE old.names[c]]]
    IN  \/ /\ file' \in {FileRec("object", "none", da, ic, merged.names, clock) :
                            da \in ListsOf(merged.dismissed),
                            ic \in ListsOf(merged.inactive)}
           /\ lastWriter' = i
           /\ disk' = disk
        \/ /\ disk # "reliable"
           /\ file' = file
           /\ lastWriter' = lastWriter
           /\ disk' = "failed"

\* _save, as every mutator calls it last: the full state is written, or the
\* write fails with IOError, which is printed and swallowed
Save(i, st) ==
    \/ /\ file' \in JsonDumps(st, clock)
       /\ lastWriter' = i
       /\ disk' = disk
    \/ /\ disk # "reliable"
       /\ file' = file
       /\ lastWriter' = lastWriter
       /\ disk' = "failed"

\* a mutator: update the cache, then _save
Mutate(name, i, st) ==
    /\ status[i] = "ready"
    /\ mem' = [mem EXCEPT ![i] = st]
    /\ Save(i, st)
    /\ lastOp' = Op("mutate", i)
    /\ raised' = "none"
    /\ UNCHANGED <<status, clock>>

\* DismissalService(): __init__ then _load
Construct(i) ==
    /\ status[i] = "absent"
    /\ LET r == LoadResult(file) IN
        /\ mem' = [mem EXCEPT ![i] = r.state]
        /\ status' = [status EXCEPT
                        ![i] = IF r.raised = "none" THEN "ready" ELSE "crashed"]
        /\ raised' = r.raised
    /\ lastOp' = Op("construct", i)
    /\ UNCHANGED <<file, lastWriter, disk, clock>>

DismissedAfterAdd(st, a) == st.dismissed \cup {a}

dismiss_alert(i, a) ==
    /\ Cardinality(mem[i].dismissed \cup {a}) <= MaxDismissed
    /\ Mutate("dismiss_alert", i,
              [mem[i] EXCEPT !.dismissed = DismissedAfterAdd(mem[i], a)])

undismiss_alert(i, a) ==
    Mutate("undismiss_alert", i,
           [mem[i] EXCEPT !.dismissed = mem[i].dismissed \ {a}])

clear_dismissed_alerts(i) ==
    Mutate("clear_dismissed_alerts", i, [mem[i] EXCEPT !.dismissed = {}])

NamesAfterMark(names, c, name) ==
    IF name # NoName
    THEN [x \in DOMAIN names \cup {c} |-> IF x = c THEN name ELSE names[x]]
    ELSE names

mark_client_inactive(i, c, name) ==
    Mutate("mark_client_inactive", i,
           [mem[i] EXCEPT !.inactive = mem[i].inactive \cup {c},
                          !.names = NamesAfterMark(mem[i].names, c, name)])

reactivate_client(i, c) ==
    Mutate("reactivate_client", i,
           [mem[i] EXCEPT !.inactive = mem[i].inactive \ {c},
                          !.names = Restrict(mem[i].names,
                                             DOMAIN mem[i].names \ {c})])

reset_all(i) == Mutate("reset_all", i, EmptyStore)

\* app.py render_settings, "Clear All Dismissals": dismissal_service.clear_all()
\* An attribute the class does not define raises AttributeError at the call.
ClearAllDismissals(i) ==
    /\ status[i] = "ready"
    /\ IF "clear_all" \in DismissalServiceMethods
       THEN /\ mem' = [mem EXCEPT ![i] = EmptyStore]
            /\ Save(i, EmptyStore)
            /\ raised' = "none"
       ELSE /\ raised' = "AttributeError"
            /\ UNCHANGED <<mem, file, lastWriter, disk>>
    /\ lastOp' = Op("clear_all", i)
    /\ UNCHANGED <<status, clock>>

(***************************************************************************)
(* Client records (data/schema.py) and alerts                              *)
(***************************************************************************)
\* a text whose first 20 characters are head and whose remainder is rest
Text(head, rest) == [head |-> head, rest |-> rest]

\* text[:20]
First20(t) == t.head

NoText == ""

Pad2(n) == IF n < 10 THEN "0" \o ToString(n) ELSE ToString(n)

\* str(a_date): ISO format
DateStr(dt) == ToString(dt.y) \o "-" \o Pad2(dt.m) \o "-" \o Pad2(dt.d)

\* the greatest date, date.max
DateMax == Date(9999, 12, 31)

FamilyMember(name, dob) == [name |-> name, date_of_birth |-> dob]

Policy(type, number, renewal, maturity) ==
    [policy_type |-> type, policy_number |-> number,
     renewal_date |-> renewal, maturity_date |-> maturity]

FollowUp(commitment, deadline, st) ==
    [commitment |-> commitment, deadline |-> deadline, status |-> st,
     completed_date |-> NoDate]

LifeEvent(type, dt) == [event_type |-> type, event_date |-> dt]

Concern(topic, severity, st, discussed) ==
    [topic |-> topic, severity |-> severity, status |-> st,
     last_discussed |-> discussed]

\* a Client with every optional field absent and every list empty
Client(id, name, dob) ==
    [id |-> id, full_name |-> name, date_of_birth |-> dob,
     family_members |-> << >>, policies |-> << >>, follow_ups |-> << >>,
     next_review_due |-> NoDate, interactions |-> << >>,
     life_events |-> << >>, risk_last_assessed |-> NoDate,
     concerns |-> << >>, last_annual_review |-> NoDate,
     suitability_confirmed |-> FALSE, suitability_date |-> NoDate,
     meeting_notes |-> << >>, value_delivered |-> << >>]

\* Client.age: read against the wall clock
Age(client, now) ==
    now.y - client.date_of_birth.y
    - (IF now.m < client.date_of_birth.m
          \/ (now.m = client.date_of_birth.m /\ now.d < client.date_of_birth.d)
       THEN 1 ELSE 0)

RECURSIVE MaxOrd(_)
MaxOrd(ds) ==
    IF Len(ds) = 1 THEN Ord(ds[1])
    ELSE LET r == MaxOrd(Tail(ds)) IN IF Ord(ds[1]) >= r THEN Ord(ds[1]) ELSE r

NoneDays == -99999

\* Client.days_since_last_contact: read against the wall clock; None if
\* there is no interaction
DaysSinceLastContact(client, now) ==
    IF client.interactions = << >> THEN NoneDays
    ELSE Ord(now) - MaxOrd(client.interactions)

\* Alert.priority_order: the rank of the priority, urgent first
PriorityOrder(priority) ==
    CASE priority = "urgent" -> 0
      [] priority = "high" -> 1
      [] priority = "medium" -> 2
      [] priority = "low" -> 3

\* age is related_data["age"], which only the client's own birthday alert has
Alert(id, client, type, priority, due, days, subject) ==
    [id |-> id, client_id |-> client.id, client_name |-> client.full_name,
     alert_type |-> type, priority |-> priority, due_date |-> due,
     days_until_due |-> days, subject |-> subject, age |-> NoneDays]

\* x or y, for an optional string
OrText(x, y) == IF x = NoText THEN y ELSE x

\* [f(x) for x in xs if Keep(x)]
MapSelected(xs, Keep(_), F(_)) ==
    LET sel == SelectSeq(xs, Keep) IN [i \in 1..Len(sel) |-> F(sel[i])]

\* a_date.replace(year=y) raises ValueError for 29 February of a common year
ReplaceYearRaises(dt, y) == dt.m = 2 /\ dt.d = 29 /\ ~IsLeap(y)

ReplaceYear(dt, y) == Date(y, dt.m, dt.d)

\* the occurrence _check_birthday evaluates: this year's, or next year's when
\* this year's is before today
BirthdayOccurrence(dob, td) ==
    IF Ord(ReplaceYear(dob, td.y)) < Ord(td)
    THEN ReplaceYear(dob, td.y + 1) ELSE ReplaceYear(dob, td.y)

BirthdayOccurrenceRaises(dob, td) ==
    \/ ReplaceYearRaises(dob, td.y)
    \/ /\ Ord(ReplaceYear(dob, td.y)) < Ord(td)
       /\ ReplaceYearRaises(dob, td.y + 1)

\* age = today.year - dob.year, one more when the birthday is next year's
BirthdayAge(dob, bday, td) ==
    (td.y - dob.y) + (IF bday.y > td.y THEN 1 ELSE 0)

check_birthday(client, td) ==
    LET bday == BirthdayOccurrence(client.date_of_birth, td)
        days == DaysBetween(bday, td)
        own == IF 0 <= days /\ days <= 14
               THEN <<[Alert("bday-" \o client.id \o "-" \o ToString(bday.y),
                             client, "birthday",
                             IF days <= 3 THEN "high" ELSE "medium",
                             bday, days, "self")
                       EXCEPT !.age = BirthdayAge(client.date_of_birth, bday, td)]>>
               ELSE << >>
        MemberDays(m) == DaysBetween(BirthdayOccurrence(m.date_of_birth, td), td)
        Due(m) == m.date_of_birth # NoDate
                  /\ 0 <= MemberDays(m) /\ MemberDays(m) <= 7
        MemberAlert(m) ==
            LET mb == BirthdayOccurrence(m.date_of_birth, td) IN
            Alert("fam-bday-" \o client.id \o "-" \o m.name \o "-"
                    \o ToString(mb.y),
                  client, "birthday", "low", mb, DaysBetween(mb, td), m.name)
    IN own \o MapSelected(client.family_members, Due, MemberAlert)

check_birthday_raises(client, td) ==
    \/ BirthdayOccurrenceRaises(client.date_of_birth, td)
    \/ \E i \in DOMAIN client.family_members :
        /\ client.family_members[i].date_of_birth # NoDate
        /\ BirthdayOccurrenceRaises(client.family_members[i].date_of_birth, td)

PolicyKey(p) == OrText(p.policy_number, p.policy_type)

check_policy_renewals(client, td) ==
    LET Days(p) == DaysBetween(p.renewal_date, td)
        Due(p) == p.renewal_date # NoDate /\ Days(p) <= 30
        RenewalAlert(p) ==
            IF Days(p) < 0
            THEN Alert("renewal-overdue-" \o client.id \o "-" \o PolicyKey(p),
                       client, "policy_renewal", "urgent",
                       p.renewal_date, Days(p), PolicyKey(p))
            ELSE Alert("renewal-" \o client.id \o "-" \o PolicyKey(p),
                       client, "policy_renewal",
                       IF Days(p) <= 7 THEN "high" ELSE "medium",
                       p.renewal_date, Days(p), PolicyKey(p))
    IN MapSelected(client.policies, Due, RenewalAlert)

check_policy_maturities(client, td) ==
    LET Days(p) == DaysBetween(p.maturity_date, td)
        Due(p) == p.maturity_date # NoDate /\ 0 <= Days(p) /\ Days(p) <= 60
        MaturityAlert(p) ==
            Alert("maturity-" \o client.id \o "-" \o PolicyKey(p),
                  client, "policy_maturity",
                  IF Days(p) <= 14 THEN "high" ELSE "medium",
                  p.maturity_date, Days(p), PolicyKey(p))
    IN MapSelected(client.policies, Due, MaturityAlert)

\* the follow-up rule without the test of the status
check_follow_ups_any_status(client, td) ==
    LET Days(f) == DaysBetween(f.deadline, td)
        Due(f) == Days(f) <= 3
        FollowUpAlert(f) ==
            IF Days(f) < 0
            THEN Alert("followup-overdue-" \o client.id \o "-"
                         \o First20(f.commitment),
                       client, "follow_up_overdue", "urgent",
                       f.deadline, Days(f),
                       f.commitment.head \o f.commitment.rest)
            ELSE Alert("followup-" \o client.id \o "-" \o First20(f.commitment),
                       client, "follow_up_due",
                       IF Days(f) = 0 THEN "high" ELSE "medium",
                       f.deadline, Days(f),
                       f.commitment.head \o f.commitment.rest)
    IN MapSelected(client.follow_ups, Due, FollowUpAlert)

check_follow_ups(client, td) ==
    LET Days(f) == DaysBetween(f.deadline, td)
        Due(f) == f.status = "pending" /\ Days(f) <= 3
        FollowUpAlert(f) ==
            IF Days(f) < 0
            THEN Alert("followup-overdue-" \o client.id \o "-"
                         \o First20(f.commitment),
                       client, "follow_up_overdue", "urgent",
                       f.deadline, Days(f),
                       f.commitment.head \o f.commitment.rest)
            ELSE Alert("followup-" \o client.id \o "-" \o First20(f.commitment),
                       client, "follow_up_due",
                       IF Days(f) = 0 THEN "high" ELSE "medium",
                       f.deadline, Days(f),
                       f.commitment.head \o f.commitment.rest)
    IN MapSelected(client.follow_ups, Due, FollowUpAlert)

\* the annual-review rule counting a review due today as overdue
check_annual_review_today_overdue(client, td) ==
    LET due == client.next_review_due
        days == DaysBetween(due, td)
    IN  IF due = NoDate THEN << >>
        ELSE IF days <= 0
        THEN <<Alert("review-overdue-" \o client.id, client,
                     "annual_review_overdue", "urgent", due, days, "review")>>
        ELSE IF days <= 30
        THEN <<Alert("review-" \o client.id, client, "annual_review_due",
                     IF days <= 7 THEN "high" ELSE "medium",
                     due, days, "review")>>
        ELSE << >>

check_annual_review(client, td) ==
    LET due == client.next_review_due
        days == DaysBetween(due, td)
    IN  IF due = NoDate THEN << >>
        ELSE IF days < 0
        THEN <<Alert("review-overdue-" \o client.id, client,
                     "annual_review_overdue", "urgent", due, days, "review")>>
        ELSE IF days <= 30
        THEN <<Alert("review-" \o client.id, client, "annual_review_due",
                     IF days <= 7 THEN "high" ELSE "medium",
                     due, days, "review")>>
        ELSE << >>

\* the no-contact rule starting after the 90th day
check_no_contact_after_ninety(client, td, now) ==
    LET since == DaysSinceLastContact(client, now) IN
    IF since # NoneDays /\ since # 0 /\ since > 90
    THEN <<Alert("no-contact-" \o client.id, client, "no_contact",
                 IF since >= 180 THEN "high" ELSE "medium", td, 0, "contact")>>
    ELSE << >>

check_no_contact(client, td, now) ==
    LET since == DaysSinceLastContact(client, now) IN
    IF since # NoneDays /\ since # 0 /\ since >= 90
    THEN <<Alert("no-contact-" \o client.id, client, "no_contact",
                 IF since >= 180 THEN "high" ELSE "medium", td, 0, "contact")>>
    ELSE << >>

check_life_events(client, td) ==
    LET Days(e) == DaysBetween(e.event_date, td)
        Due(e) == 0 <= Days(e) /\ Days(e) <= 30
        EventAlert(e) ==
            Alert("event-" \o client.id \o "-" \o e.event_type \o "-"
                    \o DateStr(e.event_date),
                  client, "life_event",
                  IF Days(e) <= 7 THEN "high" ELSE "medium",
                  e.event_date, Days(e), e.event_type)
    IN MapSelected(client.life_events, Due, EventAlert)

\* years_since = days / 365 >= 1
check_risk_profile(client, td) ==
    IF client.risk_last_assessed # NoDate
       /\ DaysBetween(td, client.risk_last_assessed) >= 365
    THEN <<Alert("risk-stale-" \o client.id, client, "risk_profile_stale",
                 "medium", td, 0, "risk")>>
    ELSE << >>

check_concerns(client, td) ==
    LET Due(c) == /\ c.status = "active"
                  /\ c.severity = "high"
                  /\ (c.last_discussed = NoDate
                      \/ DaysBetween(td, c.last_discussed) > 30)
        ConcernAlert(c) ==
            Alert("concern-" \o client.id \o "-" \o First20(c.topic), client,
                  "concern_needs_attention", "high", td, 0,
                  c.topic.head \o c.topic.rest)
    IN MapSelected(client.concerns, Due, ConcernAlert)

RetirementAge == 67

check_retirement(client, now) ==
    LET years == RetirementAge - Age(client, now) IN
    IF 0 < years /\ years <= 2
    THEN <<Alert("retirement-" \o client.id, client, "retirement_approaching",
                 "high",
                 ReplaceYear(client.date_of_birth,
                             client.date_of_birth.y + RetirementAge),
                 years * 365, "retirement")>>
    ELSE << >>

check_retirement_raises(client, now) ==
    LET years == RetirementAge - Age(client, now) IN
    /\ 0 < years /\ years <= 2
    /\ ReplaceYearRaises(client.date_of_birth,
                         client.date_of_birth.y + RetirementAge)

(***************************************************************************)
(* AlertsService: the scan, the tiered nudge, the summary                  *)
(***************************************************************************)
\* list.sort(key=...): stable, keys are pairs compared lexicographically
KeyLess(k1, k2) == k1[1] < k2[1] \/ (k1[1] = k2[1] /\ k1[2] < k2[2])

SortValues(v, keys) ==
    LET n == Len(v)
        Before(i, j) == \/ KeyLess(keys[i], keys[j])
                        \/ (keys[i] = keys[j] /\ i < j)
        Pos(i) == 1 + Cardinality({j \in 1..n : Before(j, i)})
    IN [p \in 1..n |-> v[CHOOSE i \in 1..n : Pos(i) = p]]

SortWithKey(v, Key(_)) ==
    CHOOSE r \in {SortValues(v, k) : k \in {[i \in DOMAIN v |-> Key(v[i])]}} :
        TRUE

SortedBy(xs, Key(_)) == CHOOSE r \in {SortWithKey(v, Key) : v \in {xs}} : TRUE

client_alerts(client, td, now) ==
    check_birthday(client, td) \o check_policy_renewals(client, td)
    \o check_policy_maturities(client, td) \o check_follow_ups(client, td)
    \o check_annual_review(client, td) \o check_no_contact(client, td, now)
    \o check_life_events(client, td) \o check_risk_profile(client, td)
    \o check_concerns(client, td) \o check_retirement(client, now)

RECURSIVE all_client_alerts(_, _, _)
all_client_alerts(cs, td, now) ==
    IF cs = << >> THEN << >>
    ELSE client_alerts(Head(cs), td, now) \o all_client_alerts(Tail(cs), td, now)

\* the key of the sort that ends generate_all_alerts, ignoring the priority
ScanSortKeyByDateOnly(a) ==
    <<0, Ord(IF a.due_date = NoDate THEN DateMax ELSE a.due_date)>>

\* (a.priority_order, a.due_date or date.max)
ScanSortKey(a) ==
    <<PriorityOrder(a.priority),
      Ord(IF a.due_date = NoDate THEN DateMax ELSE a.due_date)>>

generate_all_alerts(cs, td, now) ==
    SortedBy(all_client_alerts(cs, td, now), ScanSortKey)

\* the scan propagates the ValueError of a date.replace
generate_all_alerts_raises(cs, td, now) ==
    \E i \in DOMAIN cs :
        check_birthday_raises(cs[i], td) \/ check_retirement_raises(cs[i], now)

\* date(today.year, today.month + 1, 1), or 1 January of the next year
EndOfMonth(now) ==
    IF now.m < 12 THEN Date(now.y, now.m + 1, 1) ELSE Date(now.y + 1, 1, 1)

DaysLeftInMonth(now) == DaysBetween(EndOfMonth(now), now)

\* tiers with the RED boundary off by one
TierOfRedBelowFive(days, left) ==
    IF days = NoneDays THEN "none"
    ELSE IF days < 5 THEN "red"
    ELSE IF days <= 15 THEN "yellow"
    ELSE IF days <= left THEN "aggregate"
    ELSE "excluded"

\* the tier get_proactive_nudge's loop puts an alert in
TierOf(days, left) ==
    IF days = NoneDays THEN "none"
    ELSE IF days <= 5 THEN "red"
    ELSE IF days <= 15 THEN "yellow"
    ELSE IF days <= left THEN "aggregate"
    ELSE "excluded"

\* a filter that lets a dismissed alert of an inactive client through
IsActiveAlertUnlessDismissed(a, dismissed, inactive) ==
    a.id \notin dismissed \/ a.client_id \notin inactive

\* the filter of get_proactive_nudge
IsActiveAlert(a, dismissed, inactive) ==
    a.id \notin dismissed /\ a.client_id \notin inactive

\* x or dflt, for an optional integer: None and 0 are both falsy
OrInt(x, dflt) == IF x = NoneDays \/ x = 0 THEN dflt ELSE x

RedSortKey(a) == <<OrInt(a.days_until_due, -999), PriorityOrder(a.priority)>>

YellowSortKey(a) == <<OrInt(a.days_until_due, 999), PriorityOrder(a.priority)>>

\* alert_type.value.replace("_", " ").title()
TypeLabel(t) ==
    CASE t = "birthday" -> "Birthday"
      [] t = "policy_renewal" -> "Policy Renewal"
      [] t = "policy_maturity" -> "Policy Maturity"
      [] t = "follow_up_due" -> "Follow Up Due"
      [] t = "follow_up_overdue" -> "Follow Up Overdue"
      [] t = "annual_review_due" -> "Annual Review Due"
      [] t = "annual_review_overdue" -> "Annual Review Overdue"
      [] t = "no_contact" -> "No Contact"
      [] t = "life_event" -> "Life Event"
      [] t = "risk_profile_stale" -> "Risk Profile Stale"
      [] t = "concern_needs_attention" -> "Concern Needs Attention"
      [] t = "retirement_approaching" -> "Retirement Approaching"

\* _build_aggregate_summary: label -> the client names, in list order
build_aggregate_summary(als) ==
    LET labels == {TypeLabel(als[i].alert_type) : i \in DOMAIN als}
        Of(l) == LET Has(a) == TypeLabel(a.alert_type) = l
                     sel == SelectSeq(als, Has)
                 IN [i \in 1..Len(sel) |-> sel[i].client_name]
    IN [l \in labels |-> Of(l)]

\* the keys of the summary dict in insertion order: each label at the first
\* alert that carries it
SummaryKeys(als) ==
    LET First(i) == \A j \in 1..(i - 1) :
                        TypeLabel(als[j].alert_type) # TypeLabel(als[i].alert_type)
        firsts == {i \in DOMAIN als : First(i)}
        Nth(k) == CHOOSE i \in firsts : Cardinality({j \in firsts : j < i}) = k - 1
    IN [k \in 1..Cardinality(firsts) |-> TypeLabel(als[Nth(k)].alert_type)]

\* xs[:n]
Prefix(xs, n) == SubSeq(xs, 1, IF Len(xs) < n THEN Len(xs) ELSE n)

\* one line of the formatted nudge: the template it is built from and the
\* values put in it
Line(kind, who, n, text) == [kind |-> kind, who |-> who, n |-> n, text |-> text]

\* greetings.get(time_of_day, greetings["morning"])
GreetingOf(time_of_day) ==
    IF time_of_day \in {"morning", "afternoon_early", "afternoon", "evening",
                        "night", "late_night"}
    THEN time_of_day ELSE "morning"

\* "OVERDUE" if days < 0 else "in N days" if days > 0 else "TODAY"
DaysText(days) ==
    IF days < 0 THEN "OVERDUE"
    ELSE IF days > 0 THEN "in " \o ToString(days) \o " days" ELSE "TODAY"

\* _format_proactive_nudge: the YELLOW section
YellowSection(yellow, is_brief_mode, is_full_mode) ==
    IF yellow = << >> THEN << >>
    ELSE IF is_full_mode
    THEN <<Line("yellow_header", "", 0, "Coming Up (6-15 days):")>>
         \o [i \in 1..Len(Prefix(yellow, 3)) |->
                Line("yellow_item", yellow[i].client_name,
                     yellow[i].days_until_due,
                     "in " \o ToString(yellow[i].days_until_due) \o " days")]
         \o (IF Len(yellow) > 3
             THEN <<Line("yellow_more", "", Len(yellow) - 3, "more this fortnight")>>
             ELSE << >>)
         \o <<Line("blank", "", 0, "")>>
    ELSE IF ~is_brief_mode
    THEN <<Line("yellow_count", "", Len(yellow), "items due in the next 2 weeks"),
           Line("blank", "", 0, "")>>
    ELSE << >>

\* _format_proactive_nudge: the RED section
RedSection(red, is_brief_mode) ==
    LET max_red == IF is_brief_mode THEN 3 ELSE 5 IN
    IF red = << >> THEN << >>
    ELSE <<Line("red_header", "", 0, "Urgent (<=5 days):")>>
         \o [i \in 1..Len(Prefix(red, max_red)) |->
                Line("red_item", red[i].client_name, red[i].days_until_due,
                     DaysText(red[i].days_until_due))]
         \o (IF Len(red) > max_red
             THEN <<Line("red_more", "", Len(red) - max_red, "more urgent items")>>
             ELSE << >>)
         \o <<Line("blank", "", 0, "")>>

\* _format_proactive_nudge: the "This Month" section, over the first four
\* keys of the summary
MonthSection(aggregate_summary, keys, is_full_mode) ==
    IF keys # << >> /\ is_full_mode
    THEN <<Line("month_header", "", 0, "This Month:")>>
         \o [i \in 1..Len(Prefix(keys, 4)) |->
                Line("month_item", "", Len(aggregate_summary[keys[i]]),
                     keys[i] \o (IF Len(aggregate_summary[keys[i]]) > 1
                                 THEN "s" ELSE ""))]
         \o <<Line("blank", "", 0, "")>>
    ELSE << >>

\* _format_proactive_nudge: the lines joined into the message; keys is the
\* key order of the aggregate_summary dict
format_proactive_nudge(red, yellow, aggregate_summary, keys, time_of_day) ==
    LET is_brief_mode == time_of_day \in {"late_night", "night", "evening"}
        is_full_mode == time_of_day \in {"morning", "afternoon_early"}
    IN <<Line("greeting", "", 0, GreetingOf(time_of_day)), Line("blank", "", 0, "")>>
       \o RedSection(red, is_brief_mode)
       \o YellowSection(yellow, is_brief_mode, is_full_mode)
       \o MonthSection(aggregate_summary, keys, is_full_mode)
       \o (IF red = << >> /\ yellow = << >>
           THEN <<Line("all_clear", "", 0, "No urgent items right now.")>>
           ELSE << >>)

\* get_proactive_nudge; dismissed_alerts and inactive_clients record the
\* arguments of the call
get_proactive_nudge(als, dismissed, inactive, now, time_of_day) ==
    LET Active(a) == IsActiveAlert(a, dismissed, inactive)
        active == SelectSeq(als, Active)
        left == DaysLeftInMonth(now)
        Red(a) == TierOf(a.days_until_due, left) = "red"
        Yellow(a) == TierOf(a.days_until_due, left) = "yellow"
        Aggregate(a) == TierOf(a.days_until_due, left) = "aggregate"
        red == SortedBy(SelectSeq(active, Red), RedSortKey)
        yellow == SortedBy(SelectSeq(active, Yellow), YellowSortKey)
        aggregate == SelectSeq(active, Aggregate)
    IN [computed |-> TRUE,
        red_alerts |-> red,
        yellow_alerts |-> yellow,
        aggregate_alerts |-> aggregate,
        aggregate_summary |-> build_aggregate_summary(aggregate),
        formatted_nudge |->
            format_proactive_nudge(red, yellow, build_aggregate_summary(aggregate),
                                   SummaryKeys(aggregate), time_of_day),
        time_of_day |-> time_of_day,
        total_urgent |-> Len(red),
        total_warning |-> Len(yellow),
        total_this_month |-> Len(aggregate),
        dismissed_alerts |-> dismissed,
        inactive_clients |-> inactive,
        asked_on |-> now]

\* get_client_nudges: the alerts of one client in the RED and YELLOW range,
\* sorted with the key of the RED tier
get_client_nudges(client_id, als, dismissed) ==
    LET Mine(a) == /\ a.client_id = client_id
                   /\ a.id \notin dismissed
                   /\ a.days_until_due # NoneDays
                   /\ a.days_until_due <= 15
    IN SortedBy(SelectSeq(als, Mine), RedSortKey)

NoClientNudges == [client_id |-> NoName, alerts |-> << >>]

CountWhere(xs, P(_)) == Len(SelectSeq(xs, P))

\* get_alert_summary (without by_type)
get_alert_summary(als, td) ==
    LET Urgent(a) == a.priority = "urgent"
        High(a) == a.priority = "high"
        Medium(a) == a.priority = "medium"
        Low(a) == a.priority = "low"
        DueToday(a) == a.due_date = td
        Overdue(a) == a.due_date # NoDate /\ Ord(a.due_date) < Ord(td)
    IN [total |-> Len(als),
        urgent |-> CountWhere(als, Urgent),
        high |-> CountWhere(als, High),
        medium |-> CountWhere(als, Medium),
        low |-> CountWhere(als, Low),
        due_today |-> CountWhere(als, DueToday),
        overdue |-> CountWhere(als, Overdue)]

\* render_alerts keeping the alerts of inactive clients
PageActiveAlertsUnfiltered(als, inactive) == als

\* render_alerts: the alerts of clients that are not inactive
PageActiveAlerts(als, inactive) ==
    LET Active(a) == a.client_id \notin inactive IN SelectSeq(als, Active)

\* render_alerts, from the scan's list to the list it shows (no id filter
\* from the chat page, type filter "All")
render_alerts(als, st, show_dismissed, priority_filter, td) ==
    LET active == PageActiveAlerts(als, st.inactive)
        ByPriority(a) == priority_filter = "All" \/ a.priority = priority_filter
        NotDismissed(a) == show_dismissed \/ a.id \notin st.dismissed
        filtered == SelectSeq(SelectSeq(active, ByPriority), NotDismissed)
    IN [computed |-> TRUE,
        active_alerts |-> active,
        summary |-> get_alert_summary(active, td),
        filtered_alerts |-> filtered,
        show_dismissed |-> show_dismissed,
        priority_filter |-> priority_filter,
        dismissed_alerts |-> st.dismissed,
        inactive_clients |-> st.inactive]

NoSummary ==
    [total |-> 0, urgent |-> 0, high |-> 0, medium |-> 0, low |-> 0,
     due_today |-> 0, overdue |-> 0]

NoNudge ==
    [computed |-> FALSE, red_alerts |-> << >>, yellow_alerts |-> << >>,
     aggregate_alerts |-> << >>, aggregate_summary |-> [l \in {} |-> << >>],
     formatted_nudge |-> << >>, time_of_day |-> "none",
     total_urgent |-> 0, total_warning |-> 0, total_this_month |-> 0,
     dismissed_alerts |-> {}, inactive_clients |-> {}, asked_on |-> NoDate]

NoPage ==
    [computed |-> FALSE, active_alerts |-> << >>, summary |-> NoSummary,
     filtered_alerts |-> << >>, show_dismissed |-> FALSE,
     priority_filter |-> "All", dismissed_alerts |-> {},
     inactive_clients |-> {}]

(***************************************************************************)
(* ClientService: completing a follow-up                                   *)
(***************************************************************************)
\* the positions a list holds a match at, and the first of them
FirstOf(S) == CHOOSE i \in S : \A j \in S : i <= j

\* complete_follow_up: the first client with the id, its first pending
\* follow-up with the commitment; the file of clients is then saved, and
\* the call answers True when that went through. The status is changed in
\* memory whether or not the save went through.
complete_follow_up(cs, client_id, commitment, now, saved) ==
    LET found == {k \in DOMAIN cs : cs[k].id = client_id} IN
    IF found = {} THEN [ok |-> FALSE, clients |-> cs]
    ELSE LET k == FirstOf(found)
             pending == {i \in DOMAIN cs[k].follow_ups :
                            /\ cs[k].follow_ups[i].commitment = commitment
                            /\ cs[k].follow_ups[i].status = "pending"}
         IN IF pending = {} THEN [ok |-> FALSE, clients |-> cs]
            ELSE [ok |-> saved,
                  clients |->
                      [cs EXCEPT
                          ![k].follow_ups[FirstOf(pending)].status = "completed",
                          ![k].follow_ups[FirstOf(pending)].completed_date = now]]

(***************************************************************************)
(* ComplianceService: the compliance score of a client                     *)
(***************************************************************************)
\* months_since = days / 30 <= 10, 12, 14
score_annual_review(client, td) ==
    IF client.last_annual_review = NoDate THEN 0
    ELSE LET days == DaysBetween(td, client.last_annual_review) IN
         IF days <= 300 THEN 100
         ELSE IF days <= 360 THEN 80
         ELSE IF days <= 420 THEN 50 ELSE 20

\* the risk profile scored on the annual review's scale: 50 up to 14 months
score_risk_profile_as_review(client, td) ==
    IF client.risk_last_assessed = NoDate THEN 0
    ELSE LET days == DaysBetween(td, client.risk_last_assessed) IN
         IF days <= 300 THEN 100
         ELSE IF days <= 360 THEN 80
         ELSE IF days <= 420 THEN 50 ELSE 20

\* months_since = days / 30 <= 10, 12, 18; no risk profile scores as no date
score_risk_profile(client, td) ==
    IF client.risk_last_assessed = NoDate THEN 0
    ELSE LET days == DaysBetween(td, client.risk_last_assessed) IN
         IF days <= 300 THEN 100
         ELSE IF days <= 360 THEN 80
         ELSE IF days <= 540 THEN 50 ELSE 20

score_suitability(client, td) ==
    IF ~client.suitability_confirmed THEN 30
    ELSE IF client.suitability_date = NoDate THEN 50
    ELSE LET days == DaysBetween(td, client.suitability_date) IN
         IF days <= 360 THEN 100
         ELSE IF days <= 720 THEN 70 ELSE 40

score_contact_frequency(client, now) ==
    LET since == DaysSinceLastContact(client, now) IN
    IF since = NoneDays THEN 30
    ELSE IF since <= 60 THEN 100
    ELSE IF since <= 90 THEN 80
    ELSE IF since <= 180 THEN 60 ELSE 30

score_documentation(client, td) ==
    LET notes == IF client.meeting_notes = << >> THEN 0
                 ELSE 30 + (IF Ord(td) - MaxOrd(client.meeting_notes) <= 180
                            THEN 20 ELSE 0)
        sum == notes
               + (IF client.policies # << >> THEN 25 ELSE 0)
               + (IF client.family_members # << >> THEN 15 ELSE 0)
               + (IF client.concerns # << >> THEN 10 ELSE 0)
    IN IF sum < 100 THEN sum ELSE 100

score_value_demonstrated(client) ==
    LET count == Len(client.value_delivered) IN
    IF count >= 5 THEN 100
    ELSE IF count >= 3 THEN 80
    ELSE IF count >= 1 THEN 60 ELSE 20

\* _identify_issues: one string for each sub-score under its threshold, in
\* the order of the six tests
identify_issues(scores) ==
    (IF scores.annual_review < 50
     THEN <<"Annual review overdue or never completed">> ELSE << >>)
    \o (IF scores.risk_profile < 50
        THEN <<"Risk profile needs updating">> ELSE << >>)
    \o (IF scores.suitability < 50
        THEN <<"Suitability confirmation required">> ELSE << >>)
    \o (IF scores.contact_frequency < 60
        THEN <<"Insufficient client contact">> ELSE << >>)
    \o (IF scores.documentation < 50
        THEN <<"Documentation incomplete">> ELSE << >>)
    \o (IF scores.value_demonstrated < 50
        THEN <<"Need to document value delivered">> ELSE << >>)

\* sum(scores[k] * weights[k] / 100 for k in scores), in hundredths of a
\* point, an integer; every term is a multiple of half a point, so the
\* float sum is exact
WeightedTotal(scores) ==
    scores.annual_review * 25 + scores.risk_profile * 20
    + scores.suitability * 20 + scores.contact_frequency * 15
    + scores.documentation * 10 + scores.value_demonstrated * 10

\* round(total_score, 1), in tenths of a point: to the nearest tenth, a tie
\* to the even one
RoundToTenths(hundredths) ==
    LET q == hundredths \div 10
        r == hundredths % 10
    IN IF r < 5 THEN q
       ELSE IF r > 5 THEN q + 1
       ELSE IF q % 2 = 0 THEN q ELSE q + 1

\* the status thresholds taken strictly above 80 and 60
StatusOfStrictlyAbove(hundredths) ==
    IF hundredths > 8000 THEN "compliant"
    ELSE IF hundredths > 6000 THEN "at_risk" ELSE "non_compliant"

\* the status, decided on the total before it is rounded
StatusOf(hundredths) ==
    IF hundredths >= 8000 THEN "compliant"
    ELSE IF hundredths >= 6000 THEN "at_risk" ELSE "non_compliant"

\* get_client_compliance_score (without weights and recommendations);
\* overall_score is in tenths of a point
get_client_compliance_score(client, td, now) ==
    LET scores == [annual_review |-> score_annual_review(client, td),
                   risk_profile |-> score_risk_profile(client, td),
                   suitability |-> score_suitability(client, td),
                   contact_frequency |-> score_contact_frequency(client, now),
                   documentation |-> score_documentation(client, td),
                   value_demonstrated |-> score_value_demonstrated(client)]
    IN [computed |-> TRUE,
        overall_score |-> RoundToTenths(WeightedTotal(scores)),
        status |-> StatusOf(WeightedTotal(scores)),
        breakdown |-> scores,
        issues |-> identify_issues(scores)]

NoScore ==
    [computed |-> FALSE, overall_score |-> 0, status |-> "none",
     breakdown |-> [annual_review |-> 0, risk_profile |-> 0, suitability |-> 0,
                    contact_frequency |-> 0, documentation |-> 0,
                    value_demonstrated |-> 0],
     issues |-> << >>]

\* [(c, self.get_client_compliance_score(c)) for c in clients]
ClientScores(cs, td, now) ==
    [k \in 1..Len(cs) |->
        [client |-> cs[k], score |-> get_client_compliance_score(cs[k], td, now)]]

\* the first five client scores as they come, unsorted
LowestScoringUnsorted(client_scores) == Prefix(client_scores, 5)

\* client_scores.sort(key=lambda x: x[1]["overall_score"]); client_scores[:5]
LowestScoring(client_scores) ==
    Prefix(SortValues(client_scores,
                      [k \in DOMAIN client_scores |->
                          <<client_scores[k].score.overall_score, 0>>]), 5)

\* the issues of every score, one after the other
RECURSIVE AllIssues(_)
AllIssues(client_scores) ==
    IF client_scores = << >> THEN << >>
    ELSE Head(client_scores).score.issues \o AllIssues(Tail(client_scores))

\* _get_common_issues: the dict of issue -> count as a sequence of items, in
\* insertion order (first appearance), then sorted by -count
get_common_issues(client_scores) ==
    LET all == AllIssues(client_scores)
        firsts == {i \in DOMAIN all : \A j \in 1..(i - 1) : all[j] # all[i]}
        Nth(k) == CHOOSE i \in firsts : Cardinality({j \in firsts : j < i}) = k - 1
        items == [k \in 1..Cardinality(firsts) |->
                    [issue |-> all[Nth(k)],
                     count |-> Cardinality({j \in DOMAIN all :
                                               all[j] = all[Nth(k)]})]]
    IN SortValues(items, [k \in DOMAIN items |-> <<0 - items[k].count, 0>>])

NoPortfolioSummary ==
    [computed |-> FALSE, error |-> "none", total_clients |-> 0, compliant |-> 0,
     at_risk |-> 0, non_compliant |-> 0, lowest_scoring |-> << >>,
     common_issues |-> << >>]

\* get_portfolio_compliance_summary (without average_score and
\* compliance_rate)
get_portfolio_compliance_summary(cs, td, now) ==
    IF cs = << >>
    THEN [NoPortfolioSummary EXCEPT !.computed = TRUE, !.error = "No clients"]
    ELSE LET scores == ClientScores(cs, td, now)
             Count(st) == Cardinality({k \in DOMAIN scores :
                                          scores[k].score.status = st})
         IN [computed |-> TRUE, error |-> "none",
             total_clients |-> Len(cs),
             compliant |-> Count("compliant"),
             at_risk |-> Count("at_risk"),
             non_compliant |-> Count("non_compliant"),
             lowest_scoring |-> LowestScoring(scores),
             common_issues |-> get_common_issues(scores)]

(***************************************************************************)
(* SpecStore: the store alone, two instances over one file                 *)
(***************************************************************************)
StoreDate == Date(2026, 11, 10)

\* contents the backing file can have when a process starts
InitialFiles ==
    {NoFile,
     FileRec("unreadable", "none", << >>, << >>, EmptyNames, NoDate),
     FileRec("garbage", "none", << >>, << >>, EmptyNames, NoDate),
     FileRec("nonobject", "none", << >>, << >>, EmptyNames, NoDate),
     FileRec("object", "dismissed_alerts", << >>, << >>, EmptyNames, StoreDate),
     FileRec("object", "inactive_clients", <<"review-C002">>, << >>,
             EmptyNames, StoreDate),
     FileRec("object", "none", <<"review-C002">>, <<"C002">>,
             [c \in {"C002"} |-> "Mr John Smith"], StoreDate)}

StoreInit ==
    /\ clock = StoreDate
    /\ today = StoreDate
    /\ clients = << >>
    /\ view = "none"
    /\ alerts = << >>
    /\ nudge = NoNudge
    /\ page = NoPage
    /\ mem = [i \in Inst |-> EmptyStore]
    /\ status = [i \in Inst |-> "absent"]
    /\ file \in InitialFiles
    /\ lastWriter = 0
    /\ disk = "unreliable"
    /\ lastOp = Op("start", 0)
    /\ raised = "none"
    /\ score = NoScore
    /\ clientNudges = NoClientNudges
    /\ messages = << >>
    /\ lastGreetingDate = NoDate

StoreNext ==
    /\ UNCHANGED pipelineVars
    /\ \E i \in Inst :
        \/ Construct(i)
        \/ \E a \in StoreAlertIds : dismiss_alert(i, a)
        \/ \E a \in StoreAlertIds : undismiss_alert(i, a)
        \/ clear_dismissed_alerts(i)
        \/ \E c \in StoreClientIds, n \in ClientNames : mark_client_inactive(i, c, n)
        \/ \E c \in StoreClientIds : reactivate_client(i, c)
        \/ reset_all(i)
        \/ ClearAllDismissals(i)

SpecStore == StoreInit /\ [][StoreNext]_vars

\* the same store operations, started without a dismissals file
StoreEmptyInit == StoreInit /\ file = NoFile

SpecStoreEmpty == StoreEmptyInit /\ [][StoreNext]_vars

(***************************************************************************)
(* SpecNudge: get_proactive_nudge and render_alerts over bounded lists     *)
(***************************************************************************)
NudgeClient(cid) ==
    Client(cid, IF cid = "C001" THEN "Mr John Smith" ELSE "Mrs Jane Doe",
           Date(1980, 6, 15))

\* days_until_due values around every tier boundary, None included; both
\* clocks below have 21 days left in their month
NudgeDays == {NoneDays, -3, 0, 5, 6, 15, 16, 21, 22}

NudgeClocks == {Date(2026, 11, 10), Date(2026, 12, 11)}

NudgeAlert(k, cid, days, priority) ==
    Alert("a" \o ToString(k), NudgeClient(cid),
          IF priority = "urgent" THEN "policy_renewal" ELSE "birthday",
          priority, NoDate, days, "input")

NudgeAlertLists ==
    UNION {
        {[k \in 1..n |-> NudgeAlert(k, f[k][1], f[k][2], f[k][3])] :
            f \in [1..n -> ClientIds \X NudgeDays \X {"urgent", "low"}]} :
        n \in 1..MaxAlerts}

NudgeStores ==
    {[dismissed |-> d, inactive |-> c, names |-> [x \in c |-> "Mrs Jane Doe"]] :
        d \in {{}, {"a1"}}, c \in {{}, {"C002"}}}

\* the store holds what earlier dismissals left, and the file holds the same
NudgeInit ==
    /\ clock \in NudgeClocks
    /\ today = clock
    /\ clients = << >>
    /\ view = "none"
    /\ alerts \in NudgeAlertLists
    /\ nudge = NoNudge
    /\ page = NoPage
    /\ \E st \in NudgeStores :
        /\ mem = [i \in Inst |-> IF i = 1 THEN st ELSE EmptyStore]
        /\ file \in (IF st = EmptyStore THEN {NoFile} ELSE JsonDumps(st, clock))
        /\ lastWriter = (IF st = EmptyStore THEN 0 ELSE 1)
    /\ status = [i \in Inst |-> IF i = 1 THEN "ready" ELSE "absent"]
    /\ disk = "reliable"
    /\ lastOp = Op("start", 0)
    /\ raised = "none"
    /\ score = NoScore
    /\ clientNudges = NoClientNudges
    /\ messages = << >>
    /\ lastGreetingDate = NoDate

\* alerts_service.get_proactive_nudge(alerts, dismissed, inactive), with the
\* default time_of_day
AskNudge ==
    /\ nudge' = get_proactive_nudge(alerts, mem[1].dismissed,
                                    mem[1].inactive, clock, "morning")
    /\ UNCHANGED <<clock, today, clients, view, alerts, page, mem, status,
                   file, lastWriter, disk, lastOp, raised>>

\* render_alerts' filtering and summary of the list
AskPage(show_dismissed) ==
    /\ page' = render_alerts(alerts, mem[1], show_dismissed, "All", today)
    /\ UNCHANGED <<clock, today, clients, view, alerts, nudge, mem, status,
                   file, lastWriter, disk, lastOp, raised>>

NudgeNext ==
    /\ UNCHANGED <<score, clientNudges, messages, lastGreetingDate>>
    /\ \/ AskNudge
       \/ \E sd \in BOOLEAN : AskPage(sd)

SpecNudge == NudgeInit /\ [][NudgeNext]_vars

(***************************************************************************)
(* SpecClientNudges: get_client_nudges over the lists and stores of        *)
(* SpecNudge                                                               *)
(***************************************************************************)
\* alerts_service.get_client_nudges(client.id, alerts, dismissed_alerts)
AskClientNudges(client_id) ==
    /\ clientNudges' =
          [client_id |-> client_id,
           alerts |-> get_client_nudges(client_id, alerts, mem[1].dismissed)]
    /\ UNCHANGED <<clock, today, clients, view, alerts, nudge, page, mem,
                   status, file, lastWriter, disk, lastOp, raised, score,
                   messages, lastGreetingDate>>

ClientNudgesNext == \E client_id \in ClientIds : AskClientNudges(client_id)

SpecClientNudges == NudgeInit /\ [][ClientNudgesNext]_vars

(***************************************************************************)
(* SpecFormat: the greeting's nudge, formatted at every hour of the day     *)
(***************************************************************************)
Hours == 0..23

\* app.get_time_of_day, from datetime.now().hour
get_time_of_day(hour) ==
    IF 5 <= hour /\ hour < 12 THEN "morning"
    ELSE IF 12 <= hour /\ hour < 14 THEN "afternoon_early"
    ELSE IF 14 <= hour /\ hour < 17 THEN "afternoon"
    ELSE IF 17 <= hour /\ hour < 20 THEN "evening"
    ELSE IF 20 <= hour /\ hour < 22 THEN "night"
    ELSE "late_night"

FormatDate == Date(2026, 11, 10)

\* days_until_due of the k-th alert of a tier
RedDays(k) == <<-3, 0, 2, 5>>[1 + (k % 4)]

YellowDays(k) == <<6, 10, 15>>[1 + (k % 3)]

MonthDays(k) == <<16, 21>>[1 + (k % 2)]

\* a scan's list with r alerts due within 5 days, y within 6..15 and g later
\* in the month
FormatAlerts(r, y, g) ==
    [k \in 1..(r + y + g) |->
        NudgeAlert(k, IF k % 2 = 0 THEN "C001" ELSE "C002",
                   IF k <= r THEN RedDays(k)
                   ELSE IF k <= r + y THEN YellowDays(k) ELSE MonthDays(k),
                   IF k % 3 = 0 THEN "urgent" ELSE "low")]

FormatInit ==
    /\ clock = FormatDate
    /\ today = FormatDate
    /\ clients = << >>
    /\ view = "chat"
    /\ \E r \in 0..MaxRed, y \in 0..MaxYellow, g \in 0..MaxMonth :
        alerts = FormatAlerts(r, y, g)
    /\ nudge = NoNudge
    /\ page = NoPage
    /\ mem = [i \in Inst |-> EmptyStore]
    /\ status = [i \in Inst |-> IF i = 1 THEN "ready" ELSE "absent"]
    /\ file = NoFile
    /\ lastWriter = 0
    /\ disk = "reliable"
    /\ lastOp = Op("start", 0)
    /\ raised = "none"
    /\ score = NoScore
    /\ clientNudges = NoClientNudges
    /\ messages = << >>
    /\ lastGreetingDate = NoDate

\* render_chat's call: get_proactive_nudge(..., time_of_day=get_time_of_day())
AskNudgeAt(hour) ==
    /\ nudge' = get_proactive_nudge(alerts, mem[1].dismissed, mem[1].inactive,
                                    clock, get_time_of_day(hour))
    /\ UNCHANGED <<clock, today, clients, view, alerts, page, mem, status,
                   file, lastWriter, disk, lastOp, raised>>

FormatNext ==
    /\ UNCHANGED <<score, clientNudges, messages, lastGreetingDate>>
    /\ \E hour \in Hours : AskNudgeAt(hour)

SpecFormat == FormatInit /\ [][FormatNext]_vars

(***************************************************************************)
(* SpecRules: AlertsService over single-rule clients, at several scan      *)
(* dates, in a process that may run past midnight                          *)
(***************************************************************************)
RuleDates == {Date(2026, 11, 10), Date(2026, 12, 25), Date(2028, 2, 20)}

RuleClient == Client("C001", "Mr John Smith", Date(1980, 6, 15))

\* deadlines 2 days before to 4 days after 10 November 2026
FollowUpClients ==
    {[RuleClient EXCEPT
        !.follow_ups = <<FollowUp(Text("Send pension forecast", ""), d, st)>>] :
        d \in {Date(2026, 11, 8), Date(2026, 11, 10), Date(2026, 11, 11),
               Date(2026, 11, 12), Date(2026, 11, 13), Date(2026, 11, 14)},
        st \in {"pending", "completed", "overdue"}}

\* two pending follow-ups with one commitment, due on one day or on two
TwinFollowUpClients ==
    {[RuleClient EXCEPT
        !.follow_ups = <<FollowUp(Text("Send pension forecast", ""), d, "pending"),
                         FollowUp(Text("Send pension forecast", ""),
                                  Date(2026, 11, 12), "pending")>>] :
        d \in {Date(2026, 11, 8), Date(2026, 11, 12)}}

RuleCommitments ==
    {Text("Send pension forecast", ""), Text("Call about the ISA", "")}

\* next_review_due absent, and 10 and 1 days before to 31 days after
\* 10 November 2026, the first day of the next month included
ReviewClients ==
    {[RuleClient EXCEPT !.next_review_due = d] :
        d \in {NoDate, Date(2026, 10, 31), Date(2026, 11, 9), Date(2026, 11, 10),
               Date(2026, 11, 17), Date(2026, 11, 18), Date(2026, 12, 1),
               Date(2026, 12, 10), Date(2026, 12, 11)}}

\* birthdays around the scan dates and on 29 February; ages around the
\* retirement window
BirthClients ==
    {[RuleClient EXCEPT !.date_of_birth = d] :
        d \in {Date(1975, 11, 9), Date(1975, 11, 10), Date(1975, 11, 13),
               Date(1975, 11, 14), Date(1975, 11, 24), Date(1975, 11, 25),
               Date(1980, 1, 3), Date(1980, 2, 29), Date(1960, 2, 29),
               Date(1959, 6, 15), Date(1960, 6, 15), Date(1961, 11, 11),
               Date(1959, 11, 20)}}

FamilyClients ==
    {[RuleClient EXCEPT !.family_members = <<FamilyMember("Amy", d)>>] :
        d \in {NoDate, Date(2010, 11, 15), Date(2012, 2, 29)}}

\* the latest interaction 89, 90, 179 and 180 days before 10 November 2026
ContactClients ==
    {[RuleClient EXCEPT !.interactions = xs] :
        xs \in {<< >>, <<Date(2026, 8, 13)>>, <<Date(2026, 8, 12)>>,
                <<Date(2026, 5, 15)>>, <<Date(2026, 5, 14)>>,
                <<Date(2026, 8, 12), Date(2026, 3, 1)>>}}

\* two policies of one type without a policy_number, two pending follow-ups
\* and two high concerns whose texts share their first 20 characters
SameKeyClients ==
    {[RuleClient EXCEPT
        !.policies = <<Policy("pension", NoText, Date(2026, 11, 20), NoDate),
                       Policy("pension", NoText, Date(2026, 12, 1), NoDate)>>],
     [RuleClient EXCEPT
        !.follow_ups = <<FollowUp(Text("Send the pension for", "ecast"),
                                  Date(2026, 11, 12), "pending"),
                         FollowUp(Text("Send the pension for", "ms"),
                                  Date(2026, 11, 13), "pending")>>],
     [RuleClient EXCEPT
        !.concerns = <<Concern(Text("Inheritance tax on t", "he house"),
                               "high", "active", NoDate),
                       Concern(Text("Inheritance tax on t", "he pension"),
                               "high", "active", NoDate)>>]}

RuleClients ==
    FollowUpClients \cup TwinFollowUpClients \cup SameKeyClients
    \cup ReviewClients \cup BirthClients \cup FamilyClients \cup ContactClients

\* a portfolio of one client, or of a second client born on 29 February
\* followed by the first
RuleClientLists ==
    {<<c>> : c \in RuleClients}
    \cup {<<Client("C002", "Mrs Jane Doe", Date(1980, 2, 29)), c>> :
            c \in ReviewClients}

RulesInit ==
    /\ today \in RuleDates
    /\ clock = today
    /\ clients \in RuleClientLists
    /\ view = "none"
    /\ alerts = << >>
    /\ nudge = NoNudge
    /\ page = NoPage
    /\ mem = [i \in Inst |-> EmptyStore]
    /\ status = [i \in Inst |-> IF i = 1 THEN "ready" ELSE "absent"]
    /\ file = NoFile
    /\ lastWriter = 0
    /\ disk = "reliable"
    /\ lastOp = Op("start", 0)
    /\ raised = "none"
    /\ score = NoScore
    /\ clientNudges = NoClientNudges
    /\ messages = << >>
    /\ lastGreetingDate = NoDate

\* alerts_service.generate_all_alerts(clients)
ScanAll ==
    /\ IF generate_all_alerts_raises(clients, today, clock)
       THEN /\ raised' = "ValueError"
            /\ alerts' = alerts
       ELSE /\ raised' = "none"
            /\ alerts' = generate_all_alerts(clients, today, clock)
    /\ lastOp' = Op("scan", 1)
    /\ UNCHANGED <<clock, today, clients, view, nudge, page, mem, status,
                   file, lastWriter, disk>>

\* midnight passes while the process runs: date.today() moves on and
\* AlertsService.today stays
RulesTick ==
    /\ Ord(clock) - Ord(today) < MaxTicks
    /\ clock' = NextDay(clock)
    /\ lastOp' = Op("tick", 0)
    /\ UNCHANGED <<today, clients, view, alerts, nudge, page, mem, status,
                   file, lastWriter, disk, raised>>

\* the Done button of a pending follow-up: client_service.complete_follow_up
CompleteFollowUp(client_id, commitment, saved) ==
    /\ \E r \in {complete_follow_up(clients, client_id, commitment, clock, saved)} :
        /\ clients' = r.clients
        /\ lastOp' = Op(IF r.ok THEN "complete" ELSE "complete_failed", 0)
    /\ UNCHANGED <<clock, today, view, alerts, nudge, page, mem, status,
                   file, lastWriter, disk, raised>>

RulesNext ==
    /\ UNCHANGED <<score, clientNudges, messages, lastGreetingDate>>
    /\ \/ ScanAll
       \/ RulesTick
       \/ AskNudge
       \/ \E client_id \in ClientIds, commitment \in RuleCommitments,
             saved \in BOOLEAN :
               CompleteFollowUp(client_id, commitment, saved)

SpecRules == RulesInit /\ [][RulesNext]_vars

(***************************************************************************)
(* SpecCompliance: get_client_compliance_score over clients that take      *)
(* every value of each of the six component scores                         *)
(***************************************************************************)
ComplianceDate == Date(2026, 11, 10)

ComplianceClients ==
    {[RuleClient EXCEPT
        !.last_annual_review = review,
        !.risk_last_assessed = risk,
        !.suitability_confirmed = suit[1],
        !.suitability_date = suit[2],
        !.interactions = contacts,
        !.meeting_notes = notes,
        !.policies = policies,
        !.family_members = people[1],
        !.concerns = people[2],
        !.value_delivered = value] :
        review \in {NoDate, Date(2026, 1, 14), Date(2025, 11, 15),
                    Date(2025, 9, 15)},
        risk \in {NoDate, Date(2026, 1, 14), Date(2025, 11, 15),
                  Date(2024, 1, 1)},
        suit \in {<<FALSE, NoDate>>, <<TRUE, NoDate>>,
                  <<TRUE, Date(2026, 1, 14)>>, <<TRUE, Date(2025, 1, 1)>>},
        contacts \in {<< >>, <<Date(2026, 10, 1)>>, <<Date(2026, 8, 12)>>,
                      <<Date(2026, 5, 14)>>},
        notes \in {<< >>, <<Date(2026, 1, 1)>>, <<Date(2026, 10, 1)>>},
        policies \in {<< >>, <<Policy("pension", "POL-1", NoDate, NoDate)>>},
        people \in {<< << >>, << >> >>,
                    << <<FamilyMember("Amy", NoDate)>>,
                       <<Concern(Text("inheritance tax", ""), "high", "active",
                                 NoDate)>> >>},
        value \in {<< >>, <<"review">>, <<"review", "rebalance", "tax saving">>,
                   <<"review", "rebalance", "tax saving", "will", "isa">>}}

\* the well-kept client: reviewed 11 months ago, suitability confirmed 6
\* months ago, contacted 40 days ago, a meeting note last month, 3 policies,
\* a family member, 2 concerns, 4 value items; the risk profile absent or
\* assessed 300, 360, 540, 541 and 1044 days ago, the other fields varied
ScenarioClients ==
    {[Client("C003", "Dr Ann Lee", dob) EXCEPT
        !.last_annual_review = Date(2025, 12, 10),
        !.risk_last_assessed = risk,
        !.suitability_confirmed = TRUE,
        !.suitability_date = Date(2026, 5, 10),
        !.interactions = <<Date(2026, 6, 1), Date(2026, 10, 1)>>,
        !.meeting_notes = <<Date(2026, 10, 20), Date(2026, 2, 3)>>,
        !.policies = <<Policy("pension", "POL-1", NoDate, NoDate),
                       Policy("isa", "POL-2", NoDate, NoDate),
                       Policy("life_insurance", "POL-3", NoDate, NoDate)>>,
        !.family_members = <<FamilyMember("Amy", NoDate)>>,
        !.concerns = <<Concern(Text("inheritance tax", ""), "high", "active",
                               NoDate),
                       Concern(Text("care fees", ""), "low", "monitoring",
                               NoDate)>>,
        !.value_delivered = <<"review", "rebalance", "tax saving", "will">>,
        !.follow_ups = other[1],
        !.life_events = other[2]] :
        dob \in {Date(1961, 11, 11), Date(1980, 2, 29)},
        risk \in {NoDate, Date(2026, 1, 14), Date(2025, 11, 15),
                  Date(2025, 5, 19), Date(2025, 5, 18), Date(2024, 1, 1)},
        other \in {<< << >>, << >> >>,
                   << <<FollowUp(Text("Send pension forecast", ""),
                                 Date(2026, 11, 8), "pending")>>,
                      <<LifeEvent("retirement", Date(2026, 11, 20))>> >>}}

ComplianceInit ==
    /\ clock = ComplianceDate
    /\ today = ComplianceDate
    /\ clients \in {<<c>> : c \in ComplianceClients \cup ScenarioClients}
    /\ view = "compliance"
    /\ alerts = << >>
    /\ nudge = NoNudge
    /\ page = NoPage
    /\ mem = [i \in Inst |-> EmptyStore]
    /\ status = [i \in Inst |-> IF i = 1 THEN "ready" ELSE "absent"]
    /\ file = NoFile
    /\ lastWriter = 0
    /\ disk = "reliable"
    /\ lastOp = Op("start", 0)
    /\ raised = "none"
    /\ score = NoScore
    /\ clientNudges = NoClientNudges
    /\ messages = << >>
    /\ lastGreetingDate = NoDate

\* compliance_service.get_client_compliance_score(client)
ScoreClient ==
    /\ score' = get_client_compliance_score(clients[1], today, clock)
    /\ UNCHANGED <<clock, today, clients, view, alerts, nudge, page, mem,
                   status, file, lastWriter, disk, lastOp, raised,
                   clientNudges, messages, lastGreetingDate>>

ComplianceNext == ScoreClient

SpecCompliance == ComplianceInit /\ [][ComplianceNext]_vars

(***************************************************************************)
(* SpecPortfolio: get_portfolio_compliance_summary over client lists of    *)
(* up to MaxClients clients, each of one of three profiles                 *)
(***************************************************************************)
\* a client scoring 92.0 with one issue, one scoring 73.0 with one issue, and
\* one scoring 12.5 with six issues
PortfolioProfiles ==
    {[RuleClient EXCEPT
        !.last_annual_review = Date(2026, 1, 14),
        !.risk_last_assessed = Date(2026, 1, 14),
        !.suitability_confirmed = TRUE,
        !.suitability_date = Date(2026, 1, 14),
        !.interactions = <<Date(2026, 10, 1)>>,
        !.meeting_notes = <<Date(2026, 10, 1)>>,
        !.policies = <<Policy("pension", "POL-1", NoDate, NoDate)>>,
        !.family_members = <<FamilyMember("Amy", NoDate)>>,
        !.concerns = <<Concern(Text("inheritance tax", ""), "high", "active",
                               NoDate)>>],
     CHOOSE c \in ScenarioClients :
        /\ c.risk_last_assessed = NoDate
        /\ c.follow_ups = << >>
        /\ c.date_of_birth = Date(1961, 11, 11),
     RuleClient}

PortfolioLists ==
    UNION {{[k \in 1..n |-> [profile[k] EXCEPT !.id = "P" \o ToString(k)]] :
               profile \in [1..n -> PortfolioProfiles]} : n \in 0..MaxClients}

PortfolioInit ==
    /\ clock = ComplianceDate
    /\ today = ComplianceDate
    /\ clients \in PortfolioLists
    /\ view = "compliance"
    /\ alerts = << >>
    /\ nudge = NoNudge
    /\ page = NoPage
    /\ mem = [i \in Inst |-> EmptyStore]
    /\ status = [i \in Inst |-> IF i = 1 THEN "ready" ELSE "absent"]
    /\ file = NoFile
    /\ lastWriter = 0
    /\ disk = "reliable"
    /\ lastOp = Op("start", 0)
    /\ raised = "none"
    /\ score = NoPortfolioSummary
    /\ clientNudges = NoClientNudges
    /\ messages = << >>
    /\ lastGreetingDate = NoDate

\* compliance_service.get_portfolio_compliance_summary(clients)
SummarisePortfolio ==
    /\ score' = get_portfolio_compliance_summary(clients, today, clock)
    /\ UNCHANGED <<clock, today, clients, view, alerts, nudge, page, mem,
                   status, file, lastWriter, disk, lastOp, raised,
                   clientNudges, messages, lastGreetingDate>>

PortfolioNext == SummarisePortfolio

SpecPortfolio == PortfolioInit /\ [][PortfolioNext]_vars

(***************************************************************************)
(* Spec: one app session over the singletons alerts_service and            *)
(* dismissal_service (instance 1): scans, the alerts page, its buttons     *)
(***************************************************************************)
StartDate == Date(2026, 11, 10)

John == Client("C001", "Mr John Smith", Date(1980, 6, 15))

Jane == Client("C002", "Mrs Jane Doe", Date(1975, 11, 14))

FirstClients ==
    {[John EXCEPT
        !.policies = <<Policy("pension", "POL-1", Date(2026, 11, 10), NoDate)>>,
        !.follow_ups = <<FollowUp(Text("Send pension forecast", ""),
                                  Date(2026, 11, 10), "pending")>>,
        !.next_review_due = Date(2026, 12, 1)],
     [John EXCEPT
        !.policies = <<Policy("isa", NoText, Date(2026, 11, 5), NoDate)>>,
        !.interactions = <<Date(2026, 3, 2), Date(2026, 5, 1)>>,
        !.life_events = <<LifeEvent("wedding", Date(2026, 11, 25))>>]}

SecondClients ==
    {[Jane EXCEPT
        !.policies = <<Policy("life_insurance", "POL-9", NoDate,
                              Date(2026, 11, 30))>>,
        !.next_review_due = Date(2026, 11, 1)],
     [Jane EXCEPT
        !.risk_last_assessed = Date(2025, 1, 1),
        !.concerns = <<Concern(Text("inheritance tax", ""), "high", "active",
                               NoDate)>>]}

ClientLists ==
    {<<a>> : a \in FirstClients} \cup (FirstClients \X SecondClients)

Init ==
    /\ clock = StartDate
    /\ today = StartDate
    /\ clients \in ClientLists
    /\ view = "dashboard"
    /\ alerts = << >>
    /\ nudge = NoNudge
    /\ page = NoPage
    /\ mem = [i \in Inst |-> EmptyStore]
    /\ status = [i \in Inst |-> IF i = 1 THEN "ready" ELSE "absent"]
    /\ file = NoFile
    /\ lastWriter = 0
    /\ disk = "reliable"
    /\ lastOp = Op("start", 0)
    /\ raised = "none"
    /\ score = NoScore
    /\ clientNudges = NoClientNudges
    /\ messages = << >>
    /\ lastGreetingDate = NoDate

storeVars == <<mem, status, file, lastWriter, disk>>

\* the script run for view v: render_alerts scans and recomputes the page;
\* the other views modelled here compute nothing that is kept
RenderView(v, st, show_dismissed, priority_filter) ==
    IF generate_all_alerts_raises(clients, today, clock)
    THEN UNCHANGED <<alerts, nudge, page>>
    ELSE IF v = "alerts"
    THEN \E scan \in {generate_all_alerts(clients, today, clock)} :
            /\ alerts' = scan
            /\ page' = render_alerts(scan, st, show_dismissed,
                                     priority_filter, today)
            /\ nudge' = nudge
    ELSE /\ page' = NoPage
         /\ UNCHANGED <<alerts, nudge>>

\* a day passes on the wall clock; the running process keeps its singletons
Tick ==
    /\ Ord(clock) - Ord(StartDate) < MaxTicks
    /\ clock' = NextDay(clock)
    /\ UNCHANGED <<today, clients, view, alerts, nudge, page, lastOp, raised>>
    /\ UNCHANGED storeVars

\* the process restarts: the modules are imported again, AlertsService()
\* reads the date, DismissalService() loads the file, the session is new
Restart ==
    /\ today' = clock
    /\ LET r == LoadResult(file) IN
        /\ mem' = [mem EXCEPT ![1] = r.state]
        /\ status' = [status EXCEPT
                        ![1] = IF r.raised = "none" THEN "ready" ELSE "crashed"]
        /\ raised' = r.raised
    /\ view' = "dashboard"
    /\ nudge' = NoNudge
    /\ page' = NoPage
    /\ lastOp' = Op("construct", 1)
    /\ UNCHANGED <<clock, clients, alerts, file, lastWriter, disk>>

OpenAlerts(show_dismissed, priority_filter) ==
    /\ status[1] = "ready"
    /\ view' = "alerts"
    /\ RenderView("alerts", mem[1], show_dismissed, priority_filter)
    /\ lastOp' = lastOp
    /\ raised' = IF generate_all_alerts_raises(clients, today, clock)
                 THEN "ValueError" ELSE "none"
    /\ UNCHANGED <<clock, today, clients>>
    /\ UNCHANGED storeVars

\* the handlers of the alerts page's buttons: the store call, then st.rerun()
DismissFromPage(k) ==
    /\ view = "alerts"
    /\ k \in DOMAIN page.filtered_alerts
    /\ page.filtered_alerts[k].id \notin mem[1].dismissed
    /\ dismiss_alert(1, page.filtered_alerts[k].id)
    /\ RenderView("alerts", mem'[1], page.show_dismissed, page.priority_filter)
    /\ UNCHANGED <<today, clients, view>>

RestoreFromPage(k) ==
    /\ view = "alerts"
    /\ k \in DOMAIN page.filtered_alerts
    /\ page.filtered_alerts[k].id \in mem[1].dismissed
    /\ undismiss_alert(1, page.filtered_alerts[k].id)
    /\ RenderView("alerts", mem'[1], page.show_dismissed, page.priority_filter)
    /\ UNCHANGED <<today, clients, view>>

MarkInactiveFromPage(k) ==
    /\ view = "alerts"
    /\ k \in DOMAIN page.filtered_alerts
    /\ mark_client_inactive(1, page.filtered_alerts[k].client_id,
                            page.filtered_alerts[k].client_name)
    /\ RenderView("alerts", mem'[1], page.show_dismissed, page.priority_filter)
    /\ UNCHANGED <<today, clients, view>>

\* render_sidebar's reactivate button, on whatever view is shown
ReactivateFromSidebar(c) ==
    /\ c \in DOMAIN mem[1].names
    /\ reactivate_client(1, c)
    /\ RenderView(view, mem'[1], page.show_dismissed, page.priority_filter)
    /\ UNCHANGED <<today, clients, view>>

Next ==
    /\ UNCHANGED <<score, clientNudges, messages, lastGreetingDate>>
    /\ \/ Tick
       \/ Restart
       \/ \E sd \in BOOLEAN, pf \in {"All", "urgent"} : OpenAlerts(sd, pf)
       \/ \E k \in 1..6 : DismissFromPage(k)
       \/ \E k \in 1..6 : RestoreFromPage(k)
       \/ \E k \in 1..6 : MarkInactiveFromPage(k)
       \/ \E c \in ClientIds : ReactivateFromSidebar(c)

Spec == Init /\ [][Next]_vars

(***************************************************************************)
(* SpecChat: the same session with the chat view: its greeting, kept in    *)
(* the message history, the alerts page and its "Not with us" button       *)
(***************************************************************************)
\* a morning and a night hour
ChatHours == {9, 21}

\* the greeting message render_chat appends
Greeting(nudge_data) ==
    [role |-> "assistant", type |-> "greeting",
     content |-> nudge_data.formatted_nudge, nudge_data |-> nudge_data]

\* render_chat over the history msgs: the greeting is computed when none was
\* shown today and the history is empty, and kept when it has a RED or a
\* YELLOW alert; the history is then rendered as it is
RenderChat(msgs, hour) ==
    IF lastGreetingDate # clock /\ msgs = << >>
    THEN IF generate_all_alerts_raises(clients, today, clock)
         THEN /\ raised' = "ValueError"
              /\ messages' = msgs
              /\ UNCHANGED <<alerts, nudge, lastGreetingDate>>
         ELSE \E nudge_data \in
                 {get_proactive_nudge(scan, mem[1].dismissed, mem[1].inactive,
                                      clock, get_time_of_day(hour)) :
                     scan \in {generate_all_alerts(clients, today, clock)}} :
                /\ raised' = "none"
                /\ alerts' = generate_all_alerts(clients, today, clock)
                /\ nudge' = nudge_data
                /\ IF nudge_data.total_urgent > 0 \/ nudge_data.total_warning > 0
                   THEN /\ messages' = <<Greeting(nudge_data)>>
                        /\ lastGreetingDate' = clock
                   ELSE /\ messages' = msgs
                        /\ lastGreetingDate' = lastGreetingDate
    ELSE /\ raised' = "none"
         /\ messages' = msgs
         /\ UNCHANGED <<alerts, nudge, lastGreetingDate>>

\* the sidebar's chat entry: the script runs with current_view = "chat"
OpenChat(hour) ==
    /\ status[1] = "ready"
    /\ view' = "chat"
    /\ RenderChat(messages, hour)
    /\ page' = NoPage
    /\ UNCHANGED <<clock, today, clients, lastOp>>
    /\ UNCHANGED storeVars

\* the Clear Chat button: the history is emptied, then st.rerun()
ClearChat(hour) ==
    /\ view = "chat"
    /\ messages # << >>
    /\ RenderChat(<< >>, hour)
    /\ UNCHANGED <<clock, today, clients, view, page, lastOp>>
    /\ UNCHANGED storeVars

\* the steps outside the chat view leave the history as it is
ChatTick == Tick /\ UNCHANGED <<messages, lastGreetingDate>>

ChatOpenAlerts ==
    OpenAlerts(FALSE, "All") /\ UNCHANGED <<messages, lastGreetingDate>>

ChatMarkInactive(k) ==
    MarkInactiveFromPage(k) /\ UNCHANGED <<messages, lastGreetingDate>>

ChatNext ==
    /\ UNCHANGED <<score, clientNudges>>
    /\ \/ \E hour \in ChatHours : OpenChat(hour)
       \/ \E hour \in ChatHours : ClearChat(hour)
       \/ ChatTick
       \/ ChatOpenAlerts
       \/ \E k \in 1..6 : ChatMarkInactive(k)

SpecChat == Init /\ [][ChatNext]_vars

(***************************************************************************)
(* Claims about the nudge and the alerts page, checked under SpecNudge     *)
(***************************************************************************)
InactiveFree(xs, inactive) == \A i \in DOMAIN xs : xs[i].client_id \notin inactive

\* the positions of the scanned list whose client is not inactive
ActivePositions(inactive) ==
    {i \in DOMAIN alerts : alerts[i].client_id \notin inactive}

\* C1: no output computed with the store's inactive set holds an alert of an
\* inactive client, dismissed or not: not the nudge's RED, YELLOW and
\* AGGREGATE tiers, not a name in its aggregate summary, not the alerts
\* page's list, and the page's summary counts only the other clients' alerts.
C1_InactiveExcluded ==
    /\ nudge.computed =>
        /\ InactiveFree(nudge.red_alerts, nudge.inactive_clients)
        /\ InactiveFree(nudge.yellow_alerts, nudge.inactive_clients)
        /\ InactiveFree(nudge.aggregate_alerts, nudge.inactive_clients)
        /\ \A l \in DOMAIN nudge.aggregate_summary :
            \A k \in DOMAIN nudge.aggregate_summary[l] :
                \A i \in DOMAIN alerts :
                    alerts[i].client_name = nudge.aggregate_summary[l][k]
                    => alerts[i].client_id \notin nudge.inactive_clients
    /\ page.computed =>
        /\ InactiveFree(page.active_alerts, page.inactive_clients)
        /\ InactiveFree(page.filtered_alerts, page.inactive_clients)
        /\ page.summary.total
            = Cardinality(ActivePositions(page.inactive_clients))
        /\ page.summary.urgent
            = Cardinality({i \in ActivePositions(page.inactive_clients) :
                            alerts[i].priority = "urgent"})
        /\ page.summary.low
            = Cardinality({i \in ActivePositions(page.inactive_clients) :
                            alerts[i].priority = "low"})

\* both outputs computed while C002 is inactive, over a list holding a
\* dismissed urgent alert of C002 and an alert of C001
C1_Witness ==
    /\ nudge.computed
    /\ page.computed
    /\ page.show_dismissed
    /\ mem[1].inactive = {"C002"}
    /\ mem[1].dismissed = {"a1"}
    /\ Len(alerts) = 2
    /\ alerts[1].client_id = "C002"
    /\ alerts[1].days_until_due = 0
    /\ alerts[2].client_id = "C001"
    /\ alerts[2].days_until_due = 16
    /\ Len(nudge.aggregate_alerts) = 1
    /\ Len(page.filtered_alerts) = 1

\* how many entries of tier xs carry the id of a
Occurrences(xs, a) == Cardinality({i \in DOMAIN xs : xs[i].id = a.id})

\* the days that remain in the month of dt, the day dt itself counted
DaysRemainingInMonth(dt) == DaysInMonth(dt.y, dt.m) - dt.d + 1

LastDayOfMonth(dt) == Date(dt.y, dt.m, DaysInMonth(dt.y, dt.m))

\* C3: every alert placed in AGGREGATE is due, at today + days_until_due,
\* inside the calendar month of the scan date, never in the following month.
C3_AggregateWithinMonth ==
    nudge.computed =>
        \A i \in DOMAIN nudge.aggregate_alerts :
            Ord(nudge.asked_on) + nudge.aggregate_alerts[i].days_until_due
                <= Ord(LastDayOfMonth(nudge.asked_on))

AscendingByDays(xs) ==
    \A i \in DOMAIN xs : \A j \in DOMAIN xs :
        j = i + 1 =>
            \/ xs[i].days_until_due < xs[j].days_until_due
            \/ /\ xs[i].days_until_due = xs[j].days_until_due
               /\ PriorityOrder(xs[i].priority) <= PriorityOrder(xs[j].priority)

\* C5: RED is sorted by days_until_due ascending, overdue before due today
\* before the soonest, with the priority rank as tiebreak, and YELLOW is
\* sorted by days_until_due ascending.
C5_TiersSortedByDays ==
    nudge.computed =>
        /\ AscendingByDays(nudge.red_alerts)
        /\ \A i \in DOMAIN nudge.yellow_alerts : \A j \in DOMAIN nudge.yellow_alerts :
            j = i + 1 => nudge.yellow_alerts[i].days_until_due
                            <= nudge.yellow_alerts[j].days_until_due

(***************************************************************************)
(* Claims about get_client_nudges, checked under SpecClientNudges          *)
(***************************************************************************)
\* C23: get_client_nudges returns exactly the alerts of the client that are
\* not dismissed and have a defined days_until_due of at most 15, ordered as
\* the RED tier is meant to be: by days_until_due ascending (overdue before
\* due today before future), the priority rank as tiebreak.
C23_ClientNudgesSelectedAndSorted ==
    clientNudges.client_id # NoName =>
        /\ Range(clientNudges.alerts)
            = {a \in Range(alerts) :
                  /\ a.client_id = clientNudges.client_id
                  /\ a.id \notin mem[1].dismissed
                  /\ a.days_until_due # NoneDays
                  /\ a.days_until_due <= 15}
        /\ Len(clientNudges.alerts) = Cardinality(Range(clientNudges.alerts))
        /\ AscendingByDays(clientNudges.alerts)

(***************************************************************************)
(* Claims about the formatted nudge, checked under SpecFormat              *)
(***************************************************************************)
LinesOf(kind) ==
    {i \in DOMAIN nudge.formatted_nudge : nudge.formatted_nudge[i].kind = kind}

CountOf(kind) == Cardinality(LinesOf(kind))

Min(a, b) == IF a < b THEN a ELSE b

\* C12: in the brief buckets evening, night and late_night the message lists
\* the first 3 RED items at most, then an "...and N more" line exactly when
\* RED holds more than 3 (N the rest), shows YELLOW as one bare count line
\* exactly when YELLOW is not empty, and has no "This Month" section.
C12_BriefModeLayout ==
    (nudge.computed /\ nudge.time_of_day \in {"evening", "night", "late_night"})
    => /\ CountOf("red_item") = Min(3, nudge.total_urgent)
       /\ CountOf("red_more") = (IF nudge.total_urgent > 3 THEN 1 ELSE 0)
       /\ \A i \in LinesOf("red_more") :
            nudge.formatted_nudge[i].n = nudge.total_urgent - 3
       /\ CountOf("yellow_item") = 0
       /\ CountOf("yellow_count") = (IF nudge.total_warning > 0 THEN 1 ELSE 0)
       /\ \A i \in LinesOf("yellow_count") :
            nudge.formatted_nudge[i].n = nudge.total_warning
       /\ CountOf("month_header") = 0
       /\ CountOf("month_item") = 0

\* C13: in the full buckets morning and afternoon_early the message lists up
\* to 5 RED items and up to 5 YELLOW items, each list followed by an "and N
\* more" line exactly when the tier holds more than 5, N the tier size less 5.
C13_FullModeCaps ==
    (nudge.computed /\ nudge.time_of_day \in {"morning", "afternoon_early"})
    => /\ CountOf("red_item") = Min(5, nudge.total_urgent)
       /\ CountOf("red_more") = (IF nudge.total_urgent > 5 THEN 1 ELSE 0)
       /\ \A i \in LinesOf("red_more") :
            nudge.formatted_nudge[i].n = nudge.total_urgent - 5
       /\ CountOf("yellow_item") = Min(5, nudge.total_warning)
       /\ CountOf("yellow_more") = (IF nudge.total_warning > 5 THEN 1 ELSE 0)
       /\ \A i \in LinesOf("yellow_more") :
            nudge.formatted_nudge[i].n = nudge.total_warning - 5

(***************************************************************************)
(* Claims about the scan, checked under Spec                               *)
(***************************************************************************)
\* due_date ascending, an alert without due date after every dated one
DueNotAfter(a, b) ==
    \/ b.due_date = NoDate
    \/ a.due_date # NoDate /\ Ord(a.due_date) <= Ord(b.due_date)

\* C4: the list generate_all_alerts returns is ordered by priority rank
\* (urgent, high, medium, low) and, within one priority, by due_date
\* ascending with the alerts lacking a due date last.
C4_ScanOrdered ==
    \A i \in DOMAIN alerts : \A j \in DOMAIN alerts :
        i < j =>
            \/ PriorityOrder(alerts[i].priority) < PriorityOrder(alerts[j].priority)
            \/ /\ alerts[i].priority = alerts[j].priority
               /\ DueNotAfter(alerts[i], alerts[j])

\* a scan over two clients: six alerts of three priorities, and under one
\* priority an alert of the second client dated before one of the first
\* (every alert the scanners build carries a due date)
C4_Witness ==
    /\ Len(clients) = 2
    /\ Len(alerts) = 6
    /\ Cardinality({alerts[i].priority : i \in DOMAIN alerts}) >= 3
    /\ \A i \in DOMAIN alerts : alerts[i].due_date # NoDate
    /\ \E i \in DOMAIN alerts : \E j \in DOMAIN alerts :
        /\ i < j
        /\ alerts[i].client_id = "C002"
        /\ alerts[j].client_id = "C001"
        /\ alerts[i].priority = alerts[j].priority
        /\ Ord(alerts[i].due_date) < Ord(alerts[j].due_date)

\* the real-world event an alert reports: the client, what is due (a due and
\* an overdue follow-up or review are one event), its subject and its date
EventOf(a) ==
    <<a.client_id,
      CASE a.alert_type \in {"follow_up_due", "follow_up_overdue"} -> "follow_up"
        [] a.alert_type \in {"annual_review_due", "annual_review_overdue"}
            -> "annual_review"
        [] OTHER -> a.alert_type,
      a.subject, a.due_date>>

\* C6: an event reported by one scan and by the next one, on whatever days
\* the two scans run, carries the same alert id in both.
C6_SameEventSameId ==
    [][\A i \in DOMAIN alerts : \A j \in DOMAIN alerts' :
        EventOf(alerts[i]) = EventOf(alerts'[j])
        => alerts[i].id = alerts'[j].id]_vars

\* the positions of the scanned list the page should count: the client is
\* not inactive and, with "show dismissed" off, the id is not dismissed
CountedPositions ==
    {i \in DOMAIN alerts :
        /\ alerts[i].client_id \notin page.inactive_clients
        /\ (page.show_dismissed \/ alerts[i].id \notin page.dismissed_alerts)}

\* C11: the alerts page's summary counts, total and per priority, leave out
\* every alert of an inactive client and, when "show dismissed" is off,
\* every dismissed alert of the other clients.
C11_SummaryExcludesDismissed ==
    page.computed =>
        /\ page.summary.total = Cardinality(CountedPositions)
        /\ \A p \in {"urgent", "high", "medium", "low"} :
            page.summary[p]
                = Cardinality({i \in CountedPositions : alerts[i].priority = p})

(***************************************************************************)
(* Claims about the chat view, checked under SpecChat                      *)
(***************************************************************************)
\* C27: no render of the chat view shows an alert of a client that is
\* inactive: the greeting kept in the message history holds no RED and no
\* YELLOW alert of a client of the store's inactive set.
C27_ChatHidesInactiveClients ==
    view = "chat" =>
        \A k \in DOMAIN messages :
            messages[k].type = "greeting" =>
                /\ InactiveFree(messages[k].nudge_data.red_alerts,
                                mem[1].inactive)
                /\ InactiveFree(messages[k].nudge_data.yellow_alerts,
                                mem[1].inactive)

(***************************************************************************)
(* Claims about the detection rules, checked under SpecRules               *)
(***************************************************************************)
\* the list in alerts is what the scan that ran last returned
Scanned == lastOp = Op("scan", 1) /\ raised = "none"

\* the positions of the alerts of client c whose type is in types
AlertsOf(c, types) ==
    {i \in DOMAIN alerts :
        alerts[i].client_id = c.id /\ alerts[i].alert_type \in types}

\* C14: a pending follow-up whose deadline is 1 to 3 days after today gives
\* exactly one follow-up alert: type follow_up_due, priority high,
\* days_until_due = deadline - today.
C14_FollowUpAheadIsHigh ==
    Scanned =>
        \A ci \in DOMAIN clients : \A fi \in DOMAIN clients[ci].follow_ups :
            LET f == clients[ci].follow_ups[fi]
                d == Ord(f.deadline) - Ord(today)
                F == AlertsOf(clients[ci], {"follow_up_due", "follow_up_overdue"})
            IN (f.status = "pending" /\ 1 <= d /\ d <= 3)
               => /\ Cardinality(F) = 1
                  /\ \A i \in F :
                        /\ alerts[i].alert_type = "follow_up_due"
                        /\ alerts[i].priority = "high"
                        /\ alerts[i].days_until_due = d

\* the follow-up alerts of a scan that carry the commitment and the deadline
\* of follow-up f of client c
AlertsFor(c, f) ==
    {i \in AlertsOf(c, {"follow_up_due", "follow_up_overdue"}) :
        /\ alerts[i].subject = f.commitment.head \o f.commitment.rest
        /\ alerts[i].due_date = f.deadline}

\* the pending follow-ups of client c with the commitment and deadline of f
PendingLike(c, f) ==
    {j \in DOMAIN c.follow_ups :
        /\ c.follow_ups[j].commitment = f.commitment
        /\ c.follow_ups[j].deadline = f.deadline
        /\ c.follow_ups[j].status = "pending"}

\* C24: only pending follow-ups generate alerts: a scan holds no more
\* follow_up_due or follow_up_overdue alerts for a commitment and deadline
\* than the client has pending follow-ups with them, so a follow-up that
\* complete_follow_up has completed, or whose status is completed or
\* overdue, gives none, whatever its deadline.
C24_OnlyPendingFollowUpsAlert ==
    Scanned =>
        \A ci \in DOMAIN clients : \A fi \in DOMAIN clients[ci].follow_ups :
            LET c == clients[ci]
                f == c.follow_ups[fi]
            IN /\ Cardinality(AlertsFor(c, f)) <= Cardinality(PendingLike(c, f))
               /\ (f.status # "pending" /\ PendingLike(c, f) = {})
                    => AlertsFor(c, f) = {}

\* a scan made after complete_follow_up completed an overdue follow-up, and
\* holding no alert for it
C24_Witness ==
    /\ Scanned
    /\ \E ci \in DOMAIN clients : \E fi \in DOMAIN clients[ci].follow_ups :
        LET f == clients[ci].follow_ups[fi] IN
        /\ f.status = "completed"
        /\ f.completed_date # NoDate
        /\ Ord(f.deadline) < Ord(today)
        /\ AlertsFor(clients[ci], f) = {}

\* C25: the alerts of one scan have pairwise distinct ids (so that
\* dismissing one id removes exactly one alert), also for a client with two
\* policies of one type and no policy_number, two pending follow-ups or two
\* high concerns whose texts share their first 20 characters.
C25_ScanIdsDistinct ==
    Scanned =>
        \A i \in DOMAIN alerts : \A j \in DOMAIN alerts :
            i # j => alerts[i].id # alerts[j].id

\* C26: every alert of a scan has days_until_due equal to the number of days
\* from today to its due_date; so a retirement_approaching alert, due on the
\* client's 67th birthday, carries the day count to that birthday.
C26_DaysMatchDueDate ==
    Scanned =>
        \A i \in DOMAIN alerts :
            alerts[i].due_date # NoDate =>
                alerts[i].days_until_due
                = Ord(alerts[i].due_date) - Ord(today)

\* C15: the annual-review rule gives each client at most one alert: one
\* annual_review_overdue, urgent, when next_review_due is before today; one
\* annual_review_due, high within 7 days and medium within 30, when it is
\* today or later; none when it is absent or more than 30 days away; the
\* alert's days_until_due is next_review_due - today.
C15_ReviewAtMostOne ==
    Scanned =>
        \A ci \in DOMAIN clients :
            LET due == clients[ci].next_review_due
                d == Ord(due) - Ord(today)
                R == AlertsOf(clients[ci],
                              {"annual_review_due", "annual_review_overdue"})
            IN  IF due = NoDate \/ d > 30 THEN R = {}
                ELSE /\ Cardinality(R) = 1
                     /\ \A i \in R :
                        /\ alerts[i].days_until_due = d
                        /\ alerts[i].due_date = due
                        /\ alerts[i].alert_type
                            = (IF d < 0 THEN "annual_review_overdue"
                               ELSE "annual_review_due")
                        /\ alerts[i].priority
                            = (IF d < 0 THEN "urgent"
                               ELSE IF d <= 7 THEN "high" ELSE "medium")

\* a review due ten days ago, scanned: the one alert is the overdue one
C15_Witness ==
    /\ Scanned
    /\ today = Date(2026, 11, 10)
    /\ Len(clients) = 1
    /\ clients[1].next_review_due = Date(2026, 10, 31)
    /\ Len(alerts) = 1
    /\ alerts[1].id = "review-overdue-C001"
    /\ alerts[1].priority = "urgent"
    /\ alerts[1].days_until_due = -10

\* the first date with the month and day of dob that is not before td
NextBirthday(dob, td) ==
    IF Ord(Date(td.y, dob.m, dob.d)) >= Ord(td)
    THEN Date(td.y, dob.m, dob.d) ELSE Date(td.y + 1, dob.m, dob.d)

\* C16: for every date of birth and scan date the birthday rule evaluates
\* the next occurrence of the birthday on or after today: the scan of a
\* client without family members completes, days_until_due is never
\* negative, the client's birthday alert exists iff the occurrence is within
\* 14 days, is high within 3 days and medium otherwise, and reports the age
\* turned on that occurrence.
C16_BirthdayNextOccurrence ==
    (lastOp = Op("scan", 1)
     /\ \A ci \in DOMAIN clients : clients[ci].family_members = << >>)
    => /\ raised = "none"
       /\ \A ci \in DOMAIN clients :
            LET dob == clients[ci].date_of_birth
                next == NextBirthday(dob, today)
                d == Ord(next) - Ord(today)
                B == AlertsOf(clients[ci], {"birthday"})
            IN  /\ d >= 0
                /\ IF d <= 14
                   THEN /\ Cardinality(B) = 1
                        /\ \A i \in B :
                            /\ alerts[i].days_until_due = d
                            /\ alerts[i].due_date = next
                            /\ alerts[i].priority
                                = (IF d <= 3 THEN "high" ELSE "medium")
                            /\ alerts[i].age = next.y - dob.y
                   ELSE B = {}

\* the latest interaction_date of a client who has one
LatestContact(c) ==
    CHOOSE d \in Range(c.interactions) :
        \A e \in Range(c.interactions) : Ord(e) <= Ord(d)

\* C17: the no-contact rule gives a client an alert iff the client has an
\* interaction and the latest is 90 days ago or more; the alert is high from
\* 180 days on and medium below, has days_until_due 0 and due_date today; a
\* client without interactions gets none.
C17_NoContactThresholds ==
    Scanned =>
        \A ci \in DOMAIN clients :
            LET c == clients[ci]
                N == AlertsOf(c, {"no_contact"})
            IN  IF c.interactions = << >> THEN N = {}
                ELSE LET since == Ord(clock) - Ord(LatestContact(c)) IN
                     IF since >= 90
                     THEN /\ Cardinality(N) = 1
                          /\ \A i \in N :
                                /\ alerts[i].priority
                                    = (IF since >= 180 THEN "high" ELSE "medium")
                                /\ alerts[i].days_until_due = 0
                                /\ alerts[i].due_date = today
                     ELSE N = {}

\* the latest of two interactions is exactly 90 days old: one medium alert
C17_Witness ==
    /\ Scanned
    /\ clock = Date(2026, 11, 10)
    /\ today = clock
    /\ Len(clients) = 1
    /\ clients[1].interactions = <<Date(2026, 8, 12), Date(2026, 3, 1)>>
    /\ Len(alerts) = 1
    /\ alerts[1].id = "no-contact-C001"
    /\ alerts[1].priority = "medium"

\* C18: generate_all_alerts completes without raising for every list of
\* valid clients and every scan date, a date of birth on 29 February
\* included, and returns the alerts of every client of the list: here the
\* review alert of each client whose review is due within 30 days.
C18_ScanNeverRaises ==
    lastOp = Op("scan", 1)
    => /\ raised = "none"
       /\ \A ci \in DOMAIN clients :
            (/\ clients[ci].next_review_due # NoDate
             /\ Ord(clients[ci].next_review_due) - Ord(today) <= 30)
            => AlertsOf(clients[ci],
                        {"annual_review_due", "annual_review_overdue"}) # {}

\* C19: the scan and the nudge depend on the clients, the service's today
\* and the dismissal sets only: whatever the wall clock reads, the scan
\* returns the list it returns when the clock reads today, and the nudge
\* computed from a list is the one computed when the clock reads today.
C19_OutputIgnoresWallClock ==
    /\ (Scanned /\ ~generate_all_alerts_raises(clients, today, today))
        => alerts = generate_all_alerts(clients, today, today)
    /\ nudge.computed
        => LET same == get_proactive_nudge(alerts, nudge.dismissed_alerts,
                                           nudge.inactive_clients, today,
                                           nudge.time_of_day)
           IN /\ nudge.red_alerts = same.red_alerts
              /\ nudge.yellow_alerts = same.yellow_alerts
              /\ nudge.aggregate_alerts = same.aggregate_alerts

\* C29: every scan uses the calendar date of its invocation for all window
\* computations: a scan made after the date changed since the service was
\* constructed returns what a service constructed on the new date returns,
\* the rules and Client.age reading one date.
C29_ScanUsesInvocationDate ==
    (Scanned /\ ~generate_all_alerts_raises(clients, clock, clock))
        => alerts = generate_all_alerts(clients, clock, clock)

(***************************************************************************)
(* Claims about the compliance score, checked under SpecCompliance         *)
(***************************************************************************)
\* C20: overall_score is 25% annual_review + 20% risk_profile + 20%
\* suitability + 15% contact_frequency + 10% documentation + 10%
\* value_demonstrated of the returned breakdown, lies in 0..100, and the
\* returned status agrees with it: compliant iff overall_score >= 80,
\* at_risk iff 60 <= overall_score < 80, non_compliant iff below 60
\* (overall_score is held in tenths of a point).
C20_ScoreAndStatusAgree ==
    score.computed =>
        LET b == score.breakdown IN
        /\ score.overall_score * 10
            = 25 * b.annual_review + 20 * b.risk_profile + 20 * b.suitability
              + 15 * b.contact_frequency + 10 * b.documentation
              + 10 * b.value_demonstrated
        /\ 0 <= score.overall_score
        /\ score.overall_score <= 1000
        /\ (score.status = "compliant") <=> (score.overall_score >= 800)
        /\ (score.status = "at_risk")
            <=> (600 <= score.overall_score /\ score.overall_score < 800)
        /\ (score.status = "non_compliant") <=> (score.overall_score < 600)

\* a client scoring exactly 80.0, on the threshold of compliant
C20_Witness ==
    /\ score.computed
    /\ score.overall_score = 800
    /\ score.status = "compliant"
    /\ score.breakdown.documentation < 100

\* the same day of the month, months earlier
MonthsBefore(dt, months) ==
    LET index == dt.y * 12 + (dt.m - 1) - months
    IN Date(index \div 12, (index % 12) + 1, dt.d)

\* the client of the scenario, as the scoring date sees it
IsScenarioClient(client) ==
    /\ client.last_annual_review = MonthsBefore(today, 11)
    /\ client.suitability_confirmed
    /\ client.suitability_date = MonthsBefore(today, 6)
    /\ client.interactions # << >>
    /\ Ord(clock) - MaxOrd(client.interactions) = 40
    /\ client.meeting_notes # << >>
    /\ \E k \in 1..Len(client.meeting_notes) :
          /\ Ord(client.meeting_notes[k]) = MaxOrd(client.meeting_notes)
          /\ client.meeting_notes[k].y = MonthsBefore(today, 1).y
          /\ client.meeting_notes[k].m = MonthsBefore(today, 1).m
    /\ Len(client.policies) = 3
    /\ client.family_members # << >>
    /\ Len(client.concerns) = 2
    /\ Len(client.value_delivered) = 4

\* C21 as stated: the client of the scenario is compliant, with an
\* overall_score of at least 80, whatever its other fields are.
C21_ScenarioCompliantWhateverElse ==
    (score.computed /\ IsScenarioClient(clients[1])) =>
        (score.status = "compliant" /\ score.overall_score >= 800)

\* C21 amended: the client of the scenario is compliant, with an
\* overall_score of at least 80, provided its risk profile was last assessed
\* at most 540 days (18 months of 30 days) ago; whatever the remaining
\* fields are.
C21_ScenarioCompliantWithRiskProfile ==
    (/\ score.computed
     /\ IsScenarioClient(clients[1])
     /\ clients[1].risk_last_assessed # NoDate
     /\ DaysBetween(today, clients[1].risk_last_assessed) <= 540) =>
        (score.status = "compliant" /\ score.overall_score >= 800)

\* the scenario client with a risk profile assessed exactly 540 days ago,
\* scored 83.0
C21_Witness ==
    /\ score.computed
    /\ IsScenarioClient(clients[1])
    /\ clients[1].risk_last_assessed # NoDate
    /\ DaysBetween(today, clients[1].risk_last_assessed) = 540
    /\ clients[1].follow_ups # << >>
    /\ score.overall_score = 830

\* C30: a status of compliant implies an empty issues list: no client has
\* an overall_score of at least 80 while one of its sub-scores is under its
\* issue threshold.
C30_CompliantHasNoIssues ==
    (score.computed /\ score.status = "compliant") => score.issues = << >>

(***************************************************************************)
(* Claims about the portfolio summary, checked under SpecPortfolio         *)
(***************************************************************************)
\* the overall_score the service gives the client at a position of the list
ScoreAt(k) == get_client_compliance_score(clients[k], today, clock)

\* the positions of the list whose client is in lowest_scoring
InLowest == {k \in DOMAIN clients :
                \E i \in DOMAIN score.lowest_scoring :
                    score.lowest_scoring[i].client = clients[k]}

\* C22: for a non-empty client list, compliant + at_risk + non_compliant =
\* total_clients; lowest_scoring holds min(5, total_clients) clients in
\* non-decreasing overall_score, and no client outside it scores lower than
\* one inside it; common_issues maps each issue string to the number of
\* clients whose score has that issue.
C22_PortfolioSummaryConsistent ==
    (score.computed /\ clients # << >>) =>
        /\ score.error = "none"
        /\ score.total_clients = Len(clients)
        /\ score.compliant + score.at_risk + score.non_compliant
            = score.total_clients
        /\ Len(score.lowest_scoring) = Min(5, score.total_clients)
        /\ Cardinality(InLowest) = Len(score.lowest_scoring)
        /\ \A i \in DOMAIN score.lowest_scoring :
              \E k \in DOMAIN clients :
                  /\ score.lowest_scoring[i].client = clients[k]
                  /\ score.lowest_scoring[i].score = ScoreAt(k)
        /\ \A i, j \in DOMAIN score.lowest_scoring :
              i < j => score.lowest_scoring[i].score.overall_score
                       <= score.lowest_scoring[j].score.overall_score
        /\ \A k \in DOMAIN clients \ InLowest : \A j \in InLowest :
              ScoreAt(k).overall_score >= ScoreAt(j).overall_score
        /\ \A i, j \in DOMAIN score.common_issues :
              i # j => score.common_issues[i].issue # score.common_issues[j].issue
        /\ \A i \in DOMAIN score.common_issues :
              score.common_issues[i].count
              = Cardinality({k \in DOMAIN clients :
                    score.common_issues[i].issue \in Range(ScoreAt(k).issues)})
        /\ \A k \in DOMAIN clients : \A issue \in Range(ScoreAt(k).issues) :
              \E i \in DOMAIN score.common_issues :
                  score.common_issues[i].issue = issue

\* six clients summarised, the first of them outside the five lowest
C22_Witness ==
    /\ score.computed
    /\ Len(clients) = 6
    /\ Len(score.lowest_scoring) = 5
    /\ 1 \notin InLowest
    /\ score.compliant = 1
    /\ score.at_risk = 2
    /\ Len(score.common_issues) = 6

(***************************************************************************)
(* Claims about the inactive clients, checked under SpecStoreEmpty         *)
(***************************************************************************)
\* C28: after any sequence of store operations from the empty state, the
\* keys of the inactive-name map are the inactive ids: every inactive client,
\* marked with or without a display name, is in what
\* get_inactive_clients_with_names returns, and no name is kept for a client
\* that is not inactive.
C28_NamesMatchInactive ==
    \A i \in Inst :
        status[i] = "ready" => DOMAIN mem[i].names = mem[i].inactive

(***************************************************************************)
(* Claims about the dismissal store, checked under SpecStore               *)
(***************************************************************************)
\* the file is an object whose three keys hold exactly the cache st
FileHolds(st) ==
    /\ file.kind = "object"
    /\ file.bad = "none"
    /\ Range(file.dismissed_alerts) = st.dismissed
    /\ Range(file.inactive_clients) = st.inactive
    /\ file.inactive_client_names = st.names

\* C7: when every write so far has succeeded, a DismissalService constructed
\* on the directory after another instance's calls holds exactly that
\* instance's dismissed ids, inactive ids and id-to-name map.
C7_ReloadEqualsMemory ==
    \A i \in Inst, j \in Inst :
        ( /\ lastOp = Op("construct", j)
          /\ i # j
          /\ status[i] = "ready"
          /\ disk # "failed"
          /\ lastWriter \in {0, i} )
        => (status[j] = "ready" /\ raised = "none" /\ mem[j] = mem[i])

C7_Witness ==
    /\ lastOp = Op("construct", 2)
    /\ lastWriter = 1
    /\ disk # "failed"
    /\ status[1] = "ready"
    /\ mem[1].dismissed = {"bday-C001-2026"}
    /\ mem[1].inactive = {"C002"}
    /\ DOMAIN mem[1].names = {"C002"}
    /\ mem[2] = mem[1]

IsCorrupt(f) ==
    \/ f.kind \in {"unreadable", "garbage", "nonobject"}
    \/ f.kind = "object" /\ f.bad # "none"

\* C8: constructing the store over a corrupt or unreadable file, whatever its
\* content, never raises and leaves the three caches empty.
C8_CorruptFileLoadsEmpty ==
    \A i \in Inst :
        (lastOp = Op("construct", i) /\ IsCorrupt(file))
        => (raised = "none" /\ status[i] = "ready" /\ mem[i] = EmptyStore)

\* C9: the "Clear All Dismissals" action completes without error and leaves
\* the three caches empty, in memory and in the backing file.
C9_ClearAllEmptiesStore ==
    \A i \in Inst :
        (lastOp = Op("clear_all", i) /\ disk # "failed")
        => (raised = "none" /\ mem[i] = EmptyStore /\ FileHolds(EmptyStore))

\* C10: with two instances on one file, the file holds exactly the complete
\* cache of the instance that flushed last, never a merge: what only the
\* other instance holds is not in the file.
C10_LastWriterWins ==
    (lastWriter # 0 /\ disk # "failed")
    => /\ FileHolds(mem[lastWriter])
       /\ \A k \in Inst \ {lastWriter} :
            /\ \A a \in mem[k].dismissed \ mem[lastWriter].dismissed :
                    a \notin Range(file.dismissed_alerts)
            /\ \A c \in mem[k].inactive \ mem[lastWriter].inactive :
                    c \notin Range(file.inactive_clients)

C10_Witness ==
    /\ lastWriter = 2
    /\ disk # "failed"
    /\ status = [i \in Inst |-> "ready"]
    /\ mem[1].dismissed = {"bday-C001-2026"}
    /\ mem[2].dismissed = {"review-C002"}
    /\ mem[1].inactive = {"C002"}
    /\ mem[2].inactive = {}
    /\ FileHolds(mem[2])

====
